---- MODULE Spec2Model ----
(***************************************************************************)
(* A model of the notary client (client/client.go): the NotaryRepository   *)
(* orchestrator with its changelist, its local metadata cache, its         *)
(* in-memory TUF repo and the remote TUF server it publishes to.           *)
(*                                                                         *)
(* Role names are sequences of path segments: <<"targets", "a">> is the    *)
(* delegated role targets/a.  A store (the remote server, the local        *)
(* MetadataStore) is a function from the role names it holds to blobs.     *)
(* A blob is the record of a signed role: its bytes are equal exactly when *)
(* the records are equal.  An optional value is a sequence of length <= 1. *)
(***************************************************************************)
EXTENDS Integers, Sequences, FiniteSets, TLC

\* ------------------------------------------------------------------ bounds
\* Longest changelist a client stages.
MaxChanges == 2
\* Highest metadata version a Publish may start from.
MaxVersion == 3
\* Latest value of the clock.
MaxNow == 1

\* ------------------------------------------------------- program constants
\* client.go:35 gives root 3650 days; the model counts in clock ticks.
RootLife == 1
\* The slack window of nearExpiry, in clock ticks.
ExpirySlack == 1

\* ---------------------------------------------------------------- universe
Clients == {"c1", "c2"}
\* The client that initializes the repository; the other one only ever
\* holds a delegation key.
Owner == "c1"

CanonicalRootRole == <<"root">>
CanonicalTargetsRole == <<"targets">>
CanonicalSnapshotRole == <<"snapshot">>
CanonicalTimestampRole == <<"timestamp">>
BaseRoles ==
    {CanonicalRootRole, CanonicalTargetsRole, CanonicalSnapshotRole,
     CanonicalTimestampRole}

RoleA == <<"targets", "a">>
RoleB == <<"targets", "b">>
RoleAB == <<"targets", "a", "b">>
RoleZY == <<"targets", "z", "y">>

TargetNames == {"t1", "t2"}

\* Key IDs.  The server holds the private halves of ServerKeys; KeyPool
\* lists, per role, the keys CryptoService.Create hands out, in order.
RootKey == "kroot"
ServerSnapshotKey == "ksrvsnap"
ServerTimestampKey == "ksrvtime"
ServerKeys == {ServerSnapshotKey, ServerTimestampKey}
\* The roles a working server has a key for.
ServerKeyRoles == {<<"timestamp">>, <<"snapshot">>}
KeyPool ==
    [targets |-> <<"kt1", "kt2">>, snapshot |-> <<"ks1", "ks2">>]
DelegKey1 == "kd1"
DelegKey2 == "kd2"

\* ------------------------------------------------------------------ errors
OK == "ok"
ErrMetaNotFound == "ErrMetaNotFound"
ErrServerUnavailable == "ErrServerUnavailable"
ErrInvalidRole == "ErrInvalidRole"
ErrNoSuchRole == "ErrNoSuchRole"
ErrInvalidRemoteRole == "ErrInvalidRemoteRole"
ErrNoKeys == "ErrNoKeys"
ErrBadHierarchy == "ErrBadHierarchy"
ErrInvalidAction == "ErrInvalidAction"
ErrConflictingPaths == "ErrConflictingPaths"
ErrUnsupportedRole == "ErrUnsupportedRole"
ErrSyntax == "SyntaxError"
ErrKeyNotFound == "ErrKeyNotFound"
ErrCannotCreateKey == "ErrCannotCreateKey"
\* fmt.Errorf("notary does not currently support rotating the %s key").
ErrRotationUnsupported == "rotation not supported"
\* ErrRepoNotInitialized, lines 42-50: declared, and returned by no function.
ErrRepoNotInitialized == "ErrRepoNotInitialized"

\* ----------------------------------------------------------------- helpers
SeqToSet(s) == {s[i] : i \in 1..Len(s)}

IsPrefix(p, s) == Len(p) <= Len(s) /\ SubSeq(s, 1, Len(p)) = p

\* data.IsDelegation: the name starts with targets/ and has a further
\* segment.
IsDelegation(role) ==
    /\ Len(role) >= 2
    /\ role[1] = "targets"

\* The parent of a delegated role: the name up to its last segment.
ParentRole(role) == SubSeq(role, 1, Len(role) - 1)

\* ------------------------------------------------- signed objects (tuf.Repo)
\* An in-memory signed object is its blob plus the Dirty flag.
ToBlob(obj) == [f \in DOMAIN obj \ {"dirty"} |-> obj[f]]
FromBlob(blob) == [f \in DOMAIN blob \cup {"dirty"} |->
                      IF f = "dirty" THEN FALSE ELSE blob[f]]

\* The digest a snapshot records for a role's blob.  Digests are only ever
\* compared, so a collision-free digest is the blob's own bytes.
Hash(blob) == blob

\* r.tufRepo before anything was loaded.
NoRepo == [root |-> <<>>, targets |-> <<>>, snapshot |-> <<>>]

\* tuf.Repo.InitRoot: the root lists the keys of the four base roles.
InitRoot(repo, roleKeys) ==
    [repo EXCEPT !.root =
        <<[type |-> "root", version |-> 0, expires |-> 0, roles |-> roleKeys,
           sigs |-> {}, dirty |-> TRUE]>>]

NewTargets ==
    [type |-> "targets", version |-> 0, targets |-> {}, delegations |-> <<>>,
     dkeys |-> {}, sigs |-> {}, dirty |-> TRUE]

\* tuf.Repo.InitTargets(role).
InitTargets(repo, role) ==
    [repo EXCEPT !.targets =
        [r \in DOMAIN repo.targets \cup {role} |->
            IF r = role THEN NewTargets ELSE repo.targets[r]]]

\* tuf.Repo.InitSnapshot: an empty snapshot, filled in when it is signed.
InitSnapshot(repo) ==
    [repo EXCEPT !.snapshot =
        <<[type |-> "snapshot", version |-> 0, meta |-> <<>>, sigs |-> {},
           dirty |-> TRUE]>>]

\* ---------------------------------------------------------------- changes
ActionCreate == "create"
ActionUpdate == "update"
ActionDelete == "delete"
TypeTargetsTarget == "target"
TypeTargetsDelegation == "delegation"
TypeRootRole == "role"
ScopeRoot == CanonicalRootRole

\* changelist.NewTufChange.
NewTufChange(action, role, type, path, content) ==
    [action |-> action, scope |-> role, type |-> type, path |-> path,
     content |-> content]

\* An absent (nil) change content.
NoContent == [kind |-> "none"]
\* The JSON of a FileMeta.
MetaContent == [kind |-> "meta"]

\* changelist.TufDelegation.
TufDelegation(thr, addK, remK, addP, remP, addPre, remPre, clearAll) ==
    [kind |-> "delegation", newThreshold |-> thr, addKeys |-> addK,
     removeKeys |-> remK, addPaths |-> addP, removePaths |-> remP,
     addPathHashPrefixes |-> addPre, removePathHashPrefixes |-> remPre,
     clearAllPaths |-> clearAll]

\* changelist.TufRootData.
TufRootData(role, keys) == [kind |-> "rootrole", roleName |-> role, keys |-> keys]

\* ---------------------------------------------------------- change applier
\* Position of the delegation called name in a parent's roles (0: absent).
DelegationIndex(roles, name) ==
    IF \E i \in 1..Len(roles) : roles[i].name = name
    THEN CHOOSE i \in 1..Len(roles) : roles[i].name = name
    ELSE 0

RemoveAt(s, i) == [j \in 1..(Len(s) - 1) |-> IF j < i THEN s[j] ELSE s[j + 1]]

\* A defect: every role name is taken for a role of the Repo.
RoleExtantAlways(repo, role) == TRUE

\* A targets role is extant when the Repo holds its object, or when its
\* parent's object delegates to it (its own object is then initialized on
\* first use).
RoleExtant(repo, role) ==
    \/ role \in DOMAIN repo.targets
    \/ /\ IsDelegation(role)
       /\ ParentRole(role) \in DOMAIN repo.targets
       /\ DelegationIndex(repo.targets[ParentRole(role)].delegations, role) # 0

EnsureTargets(repo, role) ==
    IF role \in DOMAIN repo.targets THEN repo ELSE InitTargets(repo, role)

Applied(repo) == [repo |-> repo, err |-> OK]
Rejected(repo, e) == [repo |-> repo, err |-> e]

\* The keys some delegation of the parent still references.
ReferencedKeys(roles) == UNION {roles[i].keyIDs : i \in 1..Len(roles)}

\* A defect: keys no delegation references any more stay in the key table.
KeepKeys(dkeys, roles) == dkeys

\* The parent's key table after a change: the keys no delegation of the
\* parent references are removed.
CollectKeys(dkeys, roles) == dkeys \cap ReferencedKeys(roles)

\* A defect: deleting a target the role does not hold is an error.
changeTargetMetaStrictDelete(repo, c) ==
    IF ~RoleExtant(repo, c.scope)
    THEN Rejected(repo, ErrInvalidRole)
    ELSE LET r == EnsureTargets(repo, c.scope)
             t == r.targets[c.scope]
         IN  CASE c.action = ActionCreate ->
                    IF c.content.kind # "meta"
                    THEN Rejected(repo, ErrSyntax)
                    ELSE Applied([r EXCEPT !.targets[c.scope] =
                            [t EXCEPT !.targets = @ \cup {c.path},
                                      !.dirty = TRUE]])
               [] c.action = ActionDelete ->
                    IF c.path \notin t.targets
                    THEN Rejected(repo, ErrMetaNotFound)
                    ELSE Applied([r EXCEPT !.targets[c.scope] =
                            [t EXCEPT !.targets = @ \ {c.path},
                                      !.dirty = TRUE]])
               [] OTHER -> Rejected(repo, ErrInvalidAction)

\* A target change: create sets targets[path], delete removes it.
changeTargetMeta(repo, c) ==
    IF ~RoleExtant(repo, c.scope)
    THEN Rejected(repo, ErrInvalidRole)
    ELSE LET r == EnsureTargets(repo, c.scope)
             t == r.targets[c.scope]
         IN  CASE c.action = ActionCreate ->
                    IF c.content.kind # "meta"
                    THEN Rejected(repo, ErrSyntax)
                    ELSE Applied([r EXCEPT !.targets[c.scope] =
                            [t EXCEPT !.targets = @ \cup {c.path},
                                      !.dirty = TRUE]])
               [] c.action = ActionDelete ->
                    Applied([r EXCEPT !.targets[c.scope] =
                            [t EXCEPT !.targets = @ \ {c.path},
                                      !.dirty = TRUE]])
               [] OTHER -> Rejected(repo, ErrInvalidAction)

\* The delegation a create produces, and the one an update turns role into.
CreatedDelegation(name, td) ==
    [name |-> name, keyIDs |-> td.addKeys \ td.removeKeys,
     threshold |-> td.newThreshold,
     paths |-> td.addPaths \ td.removePaths,
     pathHashPrefixes |-> td.addPathHashPrefixes \ td.removePathHashPrefixes]

UpdatedDelegation(role, td) ==
    LET paths == IF td.clearAllPaths THEN {} ELSE role.paths
        prefixes == IF td.clearAllPaths THEN {} ELSE role.pathHashPrefixes
    IN  [name |-> role.name,
         keyIDs |-> (role.keyIDs \ td.removeKeys) \cup td.addKeys,
         threshold |-> IF td.newThreshold # 0 THEN td.newThreshold
                       ELSE role.threshold,
         paths |-> (paths \ td.removePaths) \cup td.addPaths,
         pathHashPrefixes |->
            (prefixes \ td.removePathHashPrefixes) \cup td.addPathHashPrefixes]

\* A defect: a role with both kinds of path rule is let through.
NeverConflicting(role) == FALSE

\* The produced role has both paths and pathHashPrefixes.
ConflictingPaths(role) == role.paths # {} /\ role.pathHashPrefixes # {}

\* A delegation change on the parent of c.scope.
changeTargetsDelegation(repo, c) ==
    LET parent == ParentRole(c.scope)
        r == EnsureTargets(repo, parent)
        p == r.targets[parent]
        i == DelegationIndex(p.delegations, c.scope)
        put(roles, dkeys) ==
            Applied([r EXCEPT !.targets[parent] =
                [p EXCEPT !.delegations = roles, !.dkeys = dkeys,
                          !.dirty = TRUE]])
    IN  CASE c.action = ActionCreate ->
               IF c.content.kind # "delegation" THEN Rejected(repo, ErrSyntax)
               ELSE IF Len(c.scope) < 2 \/ ~RoleExtant(repo, parent)
                       \/ ~IsDelegation(c.scope)
               THEN Rejected(repo, ErrInvalidRole)
               ELSE IF i # 0 THEN Rejected(repo, ErrInvalidRole)
               ELSE IF ConflictingPaths(CreatedDelegation(c.scope, c.content))
               THEN Rejected(repo, ErrConflictingPaths)
               ELSE put(Append(p.delegations,
                               CreatedDelegation(c.scope, c.content)),
                        p.dkeys \cup CreatedDelegation(c.scope, c.content).keyIDs)
          [] c.action = ActionUpdate ->
               IF c.content.kind # "delegation" THEN Rejected(repo, ErrSyntax)
               ELSE IF Len(c.scope) < 2 \/ ~RoleExtant(repo, parent) \/ i = 0
               THEN Rejected(repo, ErrNoSuchRole)
               ELSE IF ConflictingPaths(
                          UpdatedDelegation(p.delegations[i], c.content))
               THEN Rejected(repo, ErrConflictingPaths)
               ELSE LET roles == [p.delegations EXCEPT ![i] =
                                     UpdatedDelegation(@, c.content)]
                    IN  put(roles,
                            CollectKeys(p.dkeys \cup roles[i].keyIDs, roles))
          [] c.action = ActionDelete ->
               IF Len(c.scope) < 2 \/ ~RoleExtant(repo, parent)
               THEN Rejected(repo, ErrInvalidRole)
               ELSE IF i = 0 THEN Applied(repo)
               ELSE put(RemoveAt(p.delegations, i),
                        CollectKeys(p.dkeys, RemoveAt(p.delegations, i)))
          [] OTHER -> Rejected(repo, ErrInvalidAction)

\* applyTargetsChange dispatches on the change's type.
applyTargetsChange(repo, c) ==
    CASE c.type = TypeTargetsTarget -> changeTargetMeta(repo, c)
      [] c.type = TypeTargetsDelegation -> changeTargetsDelegation(repo, c)
      [] OTHER -> Rejected(repo, ErrInvalidAction)

\* applyRootChange: a root-role change installs the role's new key set in
\* the Root and marks it dirty.
applyRootChange(repo, c) ==
    IF c.type # TypeRootRole \/ c.action # ActionCreate
    THEN Rejected(repo, ErrInvalidAction)
    ELSE IF c.content.kind # "rootrole" THEN Rejected(repo, ErrSyntax)
    ELSE IF repo.root = <<>> THEN Rejected(repo, ErrInvalidRole)
    ELSE Applied([repo EXCEPT !.root =
            <<[repo.root[1] EXCEPT !.roles[c.content.roleName] = c.content.keys,
                                   !.dirty = TRUE]>>])

applyChange(repo, c) ==
    IF c.scope = ScopeRoot THEN applyRootChange(repo, c)
    ELSE applyTargetsChange(repo, c)

\* applyChangelist replays the changes in insertion order; the first error
\* aborts the replay and leaves the Repo as the changes before it made it.
\* applied counts the changes that were applied.
RECURSIVE applyFrom(_, _, _)
applyFrom(repo, cl, i) ==
    IF i > Len(cl) THEN [repo |-> repo, err |-> OK, applied |-> Len(cl)]
    ELSE LET res == applyChange(repo, cl[i])
         IN  IF res.err # OK
             THEN [repo |-> res.repo, err |-> res.err, applied |-> i - 1]
             ELSE applyFrom(res.repo, cl, i + 1)

applyChangelist(repo, cl) == applyFrom(repo, cl, 1)

\* ------------------------------------------------------------------ signing
\* The key IDs authorized to sign a role: the Root's record for a base role,
\* the parent's delegation for a delegated role.
AuthorizedKeys(repo, role) ==
    IF role \in BaseRoles
    THEN IF repo.root = <<>> THEN {} ELSE repo.root[1].roles[role]
    ELSE LET parent == ParentRole(role)
         IN  IF parent \notin DOMAIN repo.targets THEN {}
             ELSE LET roles == repo.targets[parent].delegations
                      i == DelegationIndex(roles, role)
                  IN  IF i = 0 THEN {} ELSE roles[i].keyIDs

Signed(repo, blob) == [repo |-> repo, err |-> OK, blob |-> <<blob>>]
NotSigned(repo, e) == [repo |-> repo, err |-> e, blob |-> <<>>]

\* tuf.Repo.SignRoot(expires): a new version, signed with the held keys the
\* Root authorizes; ErrNoKeys when none is held.
SignRoot(repo, held, expires) ==
    LET usable == held \cap AuthorizedKeys(repo, CanonicalRootRole)
        signed == [repo.root[1] EXCEPT !.version = @ + 1,
                                       !.expires = expires, !.sigs = usable]
    IN  IF usable = {} THEN NotSigned(repo, ErrNoKeys)
        ELSE Signed([repo EXCEPT !.root = <<signed>>], ToBlob(signed))

\* tuf.Repo.SignTargets(role, expires).
SignTargets(repo, role, held) ==
    LET usable == held \cap AuthorizedKeys(repo, role)
        signed == [repo.targets[role] EXCEPT !.version = @ + 1,
                                             !.sigs = usable]
    IN  IF usable = {} THEN NotSigned(repo, ErrNoKeys)
        ELSE Signed([repo EXCEPT !.targets[role] = signed], ToBlob(signed))

\* The roles a snapshot lists: root and every signed targets role.
SnapshotRoles(repo) ==
    {CanonicalRootRole} \cup {r \in DOMAIN repo.targets : repo.targets[r].sigs # {}}

SnapshotMeta(repo) ==
    [r \in SnapshotRoles(repo) |->
        IF r = CanonicalRootRole THEN Hash(ToBlob(repo.root[1]))
        ELSE Hash(ToBlob(repo.targets[r]))]

\* tuf.Repo.SignSnapshot(expires): the snapshot records the digests of the
\* Repo's current root and targets.
SignSnapshot(repo, held) ==
    LET usable == held \cap AuthorizedKeys(repo, CanonicalSnapshotRole)
        signed == [repo.snapshot[1] EXCEPT !.version = @ + 1,
                                           !.meta = SnapshotMeta(repo),
                                           !.sigs = usable]
    IN  IF usable = {} THEN NotSigned(repo, ErrNoKeys)
        ELSE Signed([repo EXCEPT !.snapshot = <<signed>>], ToBlob(signed))

\* serializeCanonicalRole: sign the role with its default expiry and
\* serialize it.
serializeCanonicalRole(repo, role, held, now) ==
    CASE role = CanonicalRootRole -> SignRoot(repo, held, now + RootLife)
      [] role = CanonicalSnapshotRole -> SignSnapshot(repo, held)
      [] role \in DOMAIN repo.targets -> SignTargets(repo, role, held)
      [] OTHER -> NotSigned(repo, ErrUnsupportedRole)

\* nearExpiry: the root expires within the slack window.
nearExpiry(root, now) == root.expires < now + ExpirySlack

\* ------------------------------------------------------------ remote server
\* The blob of a corrupt (non-JSON) file.
CorruptBlob == [type |-> "corrupt"]

Installed(store) == [store |-> store, err |-> OK]
Refused(store, e) == [store |-> store, err |-> e]

ValidSignature(blob, root) == blob.sigs \cap root.roles[<<blob.type>>] # {}

\* The snapshot the server signs itself when the update carries none.
ServerSnapshot(store) ==
    [type |-> "snapshot",
     version |-> IF CanonicalSnapshotRole \in DOMAIN store
                 THEN store[CanonicalSnapshotRole].version + 1 ELSE 1,
     meta |-> [r \in DOMAIN store \ {CanonicalSnapshotRole} |-> Hash(store[r])],
     sigs |-> {ServerSnapshotKey}]

\* The server's handling of a multi-metadata upload: it validates the
\* update against the root in force after it and installs it atomically.
\* An update without a snapshot is completed with a server-signed snapshot
\* when the root designates the server's snapshot key, and is refused with
\* ErrBadHierarchy otherwise.
SetMultiMeta(store, files) ==
    LET merged == [r \in DOMAIN store \cup DOMAIN files |->
                      IF r \in DOMAIN files THEN files[r] ELSE store[r]]
        root == merged[CanonicalRootRole]
    IN  IF CanonicalRootRole \notin DOMAIN merged
           \/ CanonicalTargetsRole \notin DOMAIN merged
        THEN Refused(store, ErrBadHierarchy)
        ELSE IF \E r \in DOMAIN files : ~ValidSignature(files[r], root)
        THEN Refused(store, ErrBadHierarchy)
        ELSE IF CanonicalSnapshotRole \in DOMAIN files
        THEN Installed(merged)
        ELSE IF ServerSnapshotKey \in root.roles[CanonicalSnapshotRole]
        THEN Installed(
                [r \in DOMAIN merged \cup {CanonicalSnapshotRole} |->
                    IF r = CanonicalSnapshotRole THEN ServerSnapshot(merged)
                    ELSE merged[r]])
        ELSE Refused(store, ErrBadHierarchy)

\* ---------------------------------------------------------------- TUF client
\* What tufclient.Update leaves in the Repo: the root, snapshot and targets
\* roles the server holds.
PulledRepo(store) ==
    [root |-> <<FromBlob(store[CanonicalRootRole])>>,
     targets |-> [r \in {x \in DOMAIN store : x[1] = "targets"} |->
                     FromBlob(store[r])],
     snapshot |-> IF CanonicalSnapshotRole \in DOMAIN store
                  THEN <<FromBlob(store[CanonicalSnapshotRole])>> ELSE <<>>]

\* -------------------------------------------------------------------- state
VARIABLES
    remote,       \* the server's metadata store for the GUN
    minted,       \* every key ID CryptoService.Create has handed out
    now,          \* the clock
    keys,         \* keys[c]: the private keys in c's CryptoService
    fileStore,    \* fileStore[c]: c's local MetadataStore
    changelist,   \* changelist[c]: c's staged changes, in insertion order
    tufRepo,      \* tufRepo[c]: c's in-memory Repo (r.tufRepo)
    pc,           \* pc[c]: where c's Publish stands
    updateRoot,   \* updateRoot[c]: Publish's local of that name
    updatedFiles, \* updatedFiles[c]: Publish's local of that name
    result,       \* result[c]: what c's last call returned
    call          \* call[c]: a record of c's last call, for the properties

vars ==
    <<remote, minted, now, keys, fileStore, changelist, tufRepo, pc,
      updateRoot, updatedFiles, result, call>>

\* The record of a call: the operation, the operation and result of the
\* call before it, how the remote root fetch ended, the changelist and the
\* server's store when the call began, the last step of Publish that ran,
\* the number of changes the replay applied, whether the upload was sent,
\* whether Clear succeeded and what a listing returned; then the call's
\* arguments, the Repo when it began, whether it sent a request to the
\* server, its requests for a key the server manages (each with the keys
\* created by then), the <<role, key>> pairs CryptoService.Create made, the
\* private keys it asked CryptoService for, the certificates it added, the
\* roles it wrote to the local MetadataStore and whether a staging call
\* opened the changelist (changelist.NewFileChangelist).
NoCall ==
    [op |-> "none", prev |-> <<"none", "ok">>, fetch |-> "none", cl0 |-> <<>>,
     remote0 |-> <<>>, at |-> "none", applied |-> 0, sent |-> FALSE,
     cleared |-> FALSE, listed |-> {}, args |-> <<>>, repo0 |-> NoRepo,
     requested |-> FALSE, keyRequests |-> <<>>, created |-> {}, asked |-> {},
     certs |-> {}, written |-> {}, opened |-> FALSE]

Init ==
    /\ remote = <<>>
    /\ minted = {}
    /\ now = 0
    /\ keys = [c \in Clients |-> IF c = Owner THEN {RootKey, DelegKey1}
                                  ELSE {DelegKey2}]
    /\ fileStore = [c \in Clients |-> <<>>]
    /\ changelist = [c \in Clients |-> <<>>]
    /\ tufRepo = [c \in Clients |-> NoRepo]
    /\ pc = [c \in Clients |-> "idle"]
    /\ updateRoot = [c \in Clients |-> FALSE]
    /\ updatedFiles = [c \in Clients |-> <<>>]
    /\ result = [c \in Clients |-> OK]
    /\ call = [c \in Clients |-> NoCall]

\* ------------------------------------------------------------ CryptoService
\* CryptoService.Create(role): the next key of the role's pool.
FreshKeys(role) ==
    LET pool == IF role = CanonicalTargetsRole THEN KeyPool.targets
                ELSE KeyPool.snapshot
    IN  {i \in 1..Len(pool) : pool[i] \notin minted}

CanCreate(role) == FreshKeys(role) # {}

CreateKey(role) ==
    LET pool == IF role = CanonicalTargetsRole THEN KeyPool.targets
                ELSE KeyPool.snapshot
        i == CHOOSE j \in FreshKeys(role) : \A k \in FreshKeys(role) : j <= k
    IN  pool[i]

\* getRemoteKey(role): the server's public key for the role.
RemoteKey(role) ==
    IF role = CanonicalSnapshotRole THEN ServerSnapshotKey
    ELSE ServerTimestampKey

\* ------------------------------------------------------------------ staging
\* strings.ToLower on a role name, for the names of the model.
LowerSegment(s) ==
    CASE s = "TARGETS" -> "targets"
      [] s = "A" -> "a"
      [] OTHER -> s

ToLower(role) == [i \in 1..Len(role) |-> LowerSegment(role[i])]

\* addChange: one change per role (targets when no role is given), all
\* added after every role was checked.
addChangeRoles(roles) ==
    IF roles = <<>> THEN <<CanonicalTargetsRole>>
    ELSE [i \in 1..Len(roles) |-> ToLower(roles[i])]

\* A defect: only the first role is checked.
addChangeValidFirstOnly(roles) ==
    LET role == addChangeRoles(roles)[1]
    IN  role = CanonicalTargetsRole \/ IsDelegation(role)

addChangeValid(roles) ==
    \A i \in 1..Len(addChangeRoles(roles)) :
        LET role == addChangeRoles(roles)[i]
        IN  role = CanonicalTargetsRole \/ IsDelegation(role)

\* A defect: only the first role gets its change.
addChangeListFirstOnly(template, roles) ==
    <<NewTufChange(template.action, addChangeRoles(roles)[1], template.type,
                   template.path, template.content)>>

addChangeList(template, roles) ==
    [i \in 1..Len(addChangeRoles(roles)) |->
        NewTufChange(template.action, addChangeRoles(roles)[i], template.type,
                     template.path, template.content)]

\* The state a staging call leaves: the changes appended, or the error.
\* Publish's locals are gone by the time another call is made.
Stage(c, begun, res, changes) ==
    /\ pc[c] = "idle"
    /\ Len(changelist[c]) + Len(changes) <= MaxChanges
    /\ changelist' = [changelist EXCEPT ![c] = @ \o changes]
    /\ result' = [result EXCEPT ![c] = res]
    /\ call' = [call EXCEPT ![c] = [begun EXCEPT !.cl0 = changelist[c]]]
    /\ updateRoot' = [updateRoot EXCEPT ![c] = FALSE]
    /\ updatedFiles' = [updatedFiles EXCEPT ![c] = <<>>]

\* The record of a call that stages changes, and of one that got as far as
\* opening the changelist.
StagingCall(op, args) == [NoCall EXCEPT !.op = op, !.args = args]
OpenedCall(op, args) == [StagingCall(op, args) EXCEPT !.opened = TRUE]

\* A defect: the repository is pulled from the server before the target is
\* staged.
AddTargetAfterPull(c, target, roles) ==
    LET template == NewTufChange(ActionCreate, <<>>, TypeTargetsTarget,
                                 target, MetaContent)
        begun == [OpenedCall("AddTarget", [target |-> target, roles |-> roles])
                     EXCEPT !.requested = TRUE]
        published == {CanonicalRootRole, CanonicalTargetsRole} \subseteq
                         DOMAIN remote
    IN  /\ IF addChangeValid(roles)
           THEN Stage(c, begun, OK, addChangeList(template, roles))
           ELSE Stage(c, begun, ErrInvalidRole, <<>>)
        /\ tufRepo' = [tufRepo EXCEPT ![c] =
                          IF published THEN PulledRepo(remote) ELSE @]
        /\ fileStore' = [fileStore EXCEPT ![c] =
                            IF published THEN remote ELSE @]
        /\ UNCHANGED <<remote, minted, now, keys, pc>>

AddTarget(c, target, roles) ==
    LET template == NewTufChange(ActionCreate, <<>>, TypeTargetsTarget,
                                 target, MetaContent)
        begun == OpenedCall("AddTarget", [target |-> target, roles |-> roles])
    IN  /\ IF addChangeValid(roles)
           THEN Stage(c, begun, OK, addChangeList(template, roles))
           ELSE Stage(c, begun, ErrInvalidRole, <<>>)
        /\ UNCHANGED <<remote, minted, now, keys, fileStore, tufRepo, pc>>

RemoveTarget(c, target, roles) ==
    LET template == NewTufChange(ActionDelete, <<>>, TypeTargetsTarget,
                                 target, NoContent)
        begun == OpenedCall("RemoveTarget",
                            [target |-> target, roles |-> roles])
    IN  /\ IF addChangeValid(roles)
           THEN Stage(c, begun, OK, addChangeList(template, roles))
           ELSE Stage(c, begun, ErrInvalidRole, <<>>)
        /\ UNCHANGED <<remote, minted, now, keys, fileStore, tufRepo, pc>>

\* A defect: the changelist is opened before the name is checked.
AddDelegationOpensFirst(c, name, threshold, delegationKeys) ==
    LET template ==
            NewTufChange(ActionCreate, name, TypeTargetsDelegation, "",
                TufDelegation(threshold, delegationKeys, {}, {}, {}, {}, {},
                              FALSE))
        begun == OpenedCall("AddDelegation",
                            [name |-> name, threshold |-> threshold,
                             delegationKeys |-> delegationKeys])
    IN  /\ IF IsDelegation(name) /\ addChangeValid(<<name>>)
           THEN Stage(c, begun, OK, addChangeList(template, <<name>>))
           ELSE Stage(c, begun, ErrInvalidRole, <<>>)
        /\ UNCHANGED <<remote, minted, now, keys, fileStore, tufRepo, pc>>

AddDelegation(c, name, threshold, delegationKeys) ==
    LET template ==
            NewTufChange(ActionCreate, name, TypeTargetsDelegation, "",
                TufDelegation(threshold, delegationKeys, {}, {}, {}, {}, {},
                              FALSE))
        args == [name |-> name, threshold |-> threshold,
                 delegationKeys |-> delegationKeys]
    IN  /\ IF ~IsDelegation(name)
           THEN Stage(c, StagingCall("AddDelegation", args), ErrInvalidRole,
                      <<>>)
           ELSE IF addChangeValid(<<name>>)
           THEN Stage(c, OpenedCall("AddDelegation", args), OK,
                      addChangeList(template, <<name>>))
           ELSE Stage(c, OpenedCall("AddDelegation", args), ErrInvalidRole,
                      <<>>)
        /\ UNCHANGED <<remote, minted, now, keys, fileStore, tufRepo, pc>>

\* A defect: a delegation the Repo does not hold cannot be removed.
RemoveDelegationIfExists(c, name) ==
    LET template ==
            NewTufChange(ActionDelete, name, TypeTargetsDelegation, "",
                         NoContent)
        args == [name |-> name]
    IN  /\ IF ~IsDelegation(name)
           THEN Stage(c, StagingCall("RemoveDelegation", args),
                      ErrInvalidRole, <<>>)
           ELSE IF name \notin DOMAIN tufRepo[c].targets
           THEN Stage(c, StagingCall("RemoveDelegation", args),
                      ErrNoSuchRole, <<>>)
           ELSE Stage(c, OpenedCall("RemoveDelegation", args), OK,
                      addChangeList(template, <<name>>))
        /\ UNCHANGED <<remote, minted, now, keys, fileStore, tufRepo, pc>>

RemoveDelegation(c, name) ==
    LET template ==
            NewTufChange(ActionDelete, name, TypeTargetsDelegation, "",
                         NoContent)
        args == [name |-> name]
    IN  /\ IF ~IsDelegation(name)
           THEN Stage(c, StagingCall("RemoveDelegation", args),
                      ErrInvalidRole, <<>>)
           ELSE IF addChangeValid(<<name>>)
           THEN Stage(c, OpenedCall("RemoveDelegation", args), OK,
                      addChangeList(template, <<name>>))
           ELSE Stage(c, OpenedCall("RemoveDelegation", args),
                      ErrInvalidRole, <<>>)
        /\ UNCHANGED <<remote, minted, now, keys, fileStore, tufRepo, pc>>

\* A defect: the change keeps the server's key for the role beside the new one.
rootFileKeyChangeKeepsKey(role, action, key) ==
    NewTufChange(action, ScopeRoot, TypeRootRole, role,
                 TufRootData(role, {key, RemoteKey(role)}))

\* rootFileKeyChange: the root-role change that gives role the one key.
rootFileKeyChange(role, action, key) ==
    NewTufChange(action, ScopeRoot, TypeRootRole, role,
                 TufRootData(role, {key}))

\* A defect: every role and flag is accepted.
rotateKeyAccepted(role, serverManagesKey) == OK

\* RotateKey, lines 741-748: the root and timestamp keys cannot be rotated,
\* and the server cannot manage the targets key.
rotateKeyCheck(role, serverManagesKey) ==
    IF role = CanonicalRootRole \/ role = CanonicalTimestampRole
    THEN ErrRotationUnsupported
    ELSE IF serverManagesKey /\ role = CanonicalTargetsRole
    THEN ErrInvalidRemoteRole
    ELSE OK

\* RotateKey(role, serverManagesKey); serverUp says whether a request for
\* the server's key is answered.
RotateKey(c, role, serverManagesKey, serverUp) ==
    LET begun == StagingCall("RotateKey",
                     [role |-> role, serverManagesKey |-> serverManagesKey])
        asking == [begun EXCEPT !.requested = TRUE, !.opened = serverUp,
                      !.keyRequests =
                          <<[role |-> role, created |-> {},
                             answer |-> IF serverUp THEN "ok"
                                        ELSE "unavailable"]>>]
        creating == [begun EXCEPT !.created = {<<role, CreateKey(role)>>},
                                  !.opened = TRUE]
    IN  /\ IF rotateKeyCheck(role, serverManagesKey) # OK
           THEN /\ Stage(c, begun, rotateKeyCheck(role, serverManagesKey),
                         <<>>)
                /\ UNCHANGED <<minted, keys>>
           ELSE IF serverManagesKey
           THEN /\ IF serverUp
                   THEN Stage(c, asking, OK,
                          <<rootFileKeyChange(role, ActionCreate,
                                              RemoteKey(role))>>)
                   ELSE Stage(c, asking, ErrServerUnavailable, <<>>)
                /\ UNCHANGED <<minted, keys>>
           ELSE /\ CanCreate(role)
                /\ Stage(c, creating, OK,
                       <<rootFileKeyChange(role, ActionCreate,
                                           CreateKey(role))>>)
                /\ minted' = minted \cup {CreateKey(role)}
                /\ keys' = [keys EXCEPT ![c] = @ \cup {CreateKey(role)}]
        /\ UNCHANGED <<remote, now, fileStore, tufRepo, pc>>

\* CryptoService.RemoveKey(keyID).
RemoveKey(c, k) ==
    /\ pc[c] = "idle"
    /\ k \in keys[c]
    /\ keys' = [keys EXCEPT ![c] = @ \ {k}]
    /\ call' = [call EXCEPT ![c] = NoCall]
    /\ result' = [result EXCEPT ![c] = OK]
    /\ UNCHANGED <<remote, minted, now, fileStore, changelist, tufRepo, pc,
                   updateRoot, updatedFiles>>

\* --------------------------------------------------------------- Initialize
\* A defect: the snapshot is never signed and stored.
saveMetadataNoSnapshot(repo, store, held, ignoreSnapshot) ==
    LET put(st, role, blob) ==
            [r \in DOMAIN st \cup {role} |-> IF r = role THEN blob ELSE st[r]]
        sr == serializeCanonicalRole(repo, CanonicalRootRole, held, now)
        st == SignTargets(sr.repo, CanonicalTargetsRole, held)
        store1 == put(store, CanonicalRootRole, sr.blob[1])
        store2 == put(store1, CanonicalTargetsRole, st.blob[1])
    IN  IF sr.err # OK THEN [repo |-> sr.repo, store |-> store, err |-> sr.err]
        ELSE IF st.err # OK
        THEN [repo |-> st.repo, store |-> store1, err |-> st.err]
        ELSE [repo |-> st.repo, store |-> store2, err |-> OK]

\* saveMetadata(ignoreSnapshot): sign and store root, every targets role
\* and, unless ignored, the snapshot.  Yields the Repo, the store and the
\* error.
saveMetadata(repo, store, held, ignoreSnapshot) ==
    LET put(st, role, blob) ==
            [r \in DOMAIN st \cup {role} |-> IF r = role THEN blob ELSE st[r]]
        sr == serializeCanonicalRole(repo, CanonicalRootRole, held, now)
        st == SignTargets(sr.repo, CanonicalTargetsRole, held)
        ss == serializeCanonicalRole(st.repo, CanonicalSnapshotRole, held, now)
        store1 == put(store, CanonicalRootRole, sr.blob[1])
        store2 == put(store1, CanonicalTargetsRole, st.blob[1])
    IN  IF sr.err # OK THEN [repo |-> sr.repo, store |-> store, err |-> sr.err]
        ELSE IF st.err # OK
        THEN [repo |-> st.repo, store |-> store1, err |-> st.err]
        ELSE IF ignoreSnapshot
        THEN [repo |-> st.repo, store |-> store2, err |-> OK]
        ELSE IF ss.err # OK
        THEN [repo |-> ss.repo, store |-> store2, err |-> ss.err]
        ELSE [repo |-> ss.repo,
              store |-> put(store2, CanonicalSnapshotRole, ss.blob[1]),
              err |-> OK]

\* A defect: any role is accepted as server-managed.
remoteRolesAnyValid(serverManagedRoles) == TRUE

\* Initialize, lines 170-183: every server-managed role must be timestamp or
\* snapshot.
remoteRolesValid(serverManagedRoles) ==
    \A i \in 1..Len(serverManagedRoles) :
        serverManagedRoles[i] \in {CanonicalTimestampRole, CanonicalSnapshotRole}

\* A defect: the server is asked for its keys before the local keys are
\* created.
gatherKeysRemoteFirst(local, remoteRoles, createFails, serverRoles, answer) ==
    LET nCreated == IF createFails = 0 \/ createFails > Len(local)
                    THEN Len(local) ELSE createFails - 1
        bad == {i \in 1..Len(remoteRoles) :
                   answer # "ok" \/ remoteRoles[i] \notin serverRoles}
        firstBad == IF bad = {} THEN 0
                    ELSE CHOOSE i \in bad : \A j \in bad : i <= j
        nAsked == IF firstBad = 0 THEN Len(remoteRoles) ELSE firstBad
        requests == [i \in 1..nAsked |->
                        [role |-> remoteRoles[i], created |-> {},
                         answer |-> IF answer # "ok" THEN "unavailable"
                                    ELSE IF remoteRoles[i] \in serverRoles
                                    THEN "ok" ELSE "notfound"]]
    IN  IF firstBad # 0
        THEN [err |-> IF answer # "ok" THEN ErrServerUnavailable
                      ELSE ErrMetaNotFound,
              created |-> <<>>, requests |-> requests]
        ELSE [err |-> IF nCreated < Len(local) THEN ErrCannotCreateKey ELSE OK,
              created |-> SubSeq(local, 1, nCreated), requests |-> requests]

\* Initialize, lines 216-239: a key is created for every locally managed
\* role, in order, and only then is the server asked for the key of every
\* remotely managed role, in order; the first failure ends the call.
\* createFails is the number of the Create call that fails (0: none),
\* serverRoles the roles the server has a key for, answer how the server
\* answers.  Yields the error, the roles a key was created for and the
\* requests sent, each with the roles a key had been created for by then
\* and the server's answer.
gatherKeys(local, remoteRoles, createFails, serverRoles, answer) ==
    LET nCreated == IF createFails = 0 \/ createFails > Len(local)
                    THEN Len(local) ELSE createFails - 1
        bad == {i \in 1..Len(remoteRoles) :
                   answer # "ok" \/ remoteRoles[i] \notin serverRoles}
        firstBad == IF bad = {} THEN 0
                    ELSE CHOOSE i \in bad : \A j \in bad : i <= j
        nAsked == IF firstBad = 0 THEN Len(remoteRoles) ELSE firstBad
    IN  IF nCreated < Len(local)
        THEN [err |-> ErrCannotCreateKey,
              created |-> SubSeq(local, 1, nCreated), requests |-> <<>>]
        ELSE [err |-> IF firstBad = 0 THEN OK
                      ELSE IF answer # "ok" THEN ErrServerUnavailable
                      ELSE ErrMetaNotFound,
              created |-> local,
              requests |-> [i \in 1..nAsked |->
                               [role |-> remoteRoles[i],
                                created |-> SeqToSet(local),
                                answer |-> IF answer # "ok" THEN "unavailable"
                                           ELSE IF remoteRoles[i] \in serverRoles
                                           THEN "ok" ELSE "notfound"]]]

\* Initialize(rootKeyID, serverManagedRoles...) by the owner, in a fresh
\* repository directory.
Initialize(c, rootKeyID, serverManagedRoles, createFails, serverRoles, answer) ==
    LET managed == SeqToSet(serverManagedRoles)
        serverManagesSnapshot == CanonicalSnapshotRole \in managed
        locallyManagedKeys ==
            IF serverManagesSnapshot THEN <<CanonicalTargetsRole>>
            ELSE <<CanonicalTargetsRole, CanonicalSnapshotRole>>
        remotelyManagedKeys ==
            IF serverManagesSnapshot
            THEN <<CanonicalTimestampRole, CanonicalSnapshotRole>>
            ELSE <<CanonicalTimestampRole>>
        gathered == gatherKeys(locallyManagedKeys, remotelyManagedKeys,
                               createFails, serverRoles, answer)
        created == {<<gathered.created[i], CreateKey(gathered.created[i])>> :
                       i \in 1..Len(gathered.created)}
        createdKeys == {p[2] : p \in created}
        roleKeys ==
            [r \in BaseRoles |->
                CASE r = CanonicalRootRole -> {rootKeyID}
                  [] r \in SeqToSet(locallyManagedKeys) -> {CreateKey(r)}
                  [] OTHER -> {RemoteKey(r)}]
        repo == InitSnapshot(InitTargets(InitRoot(NoRepo, roleKeys),
                                         CanonicalTargetsRole))
        saved == saveMetadata(repo, fileStore[c], keys[c] \cup createdKeys,
                              serverManagesSnapshot)
        begun == [NoCall EXCEPT !.op = "Initialize",
                     !.args = [rootKeyID |-> rootKeyID,
                               serverManagedRoles |-> serverManagedRoles],
                     !.asked = {rootKeyID}]
        keyed == [begun EXCEPT !.certs = {rootKeyID}, !.created = created,
                     !.keyRequests = gathered.requests,
                     !.requested = gathered.requests # <<>>]
        done == [keyed EXCEPT
                    !.asked = {rootKeyID} \cup
                        UNION {saved.store[r].sigs : r \in DOMAIN saved.store},
                    !.written = {r \in DOMAIN saved.store :
                                    \/ r \notin DOMAIN fileStore[c]
                                    \/ saved.store[r] # fileStore[c][r]}]
        return(res, rec) ==
            /\ result' = [result EXCEPT ![c] = res]
            /\ call' = [call EXCEPT ![c] = rec]
    IN  /\ c = Owner
        /\ pc[c] = "idle"
        /\ CanonicalRootRole \notin DOMAIN fileStore[c]
        /\ CanCreate(CanonicalTargetsRole) /\ CanCreate(CanonicalSnapshotRole)
        /\ IF rootKeyID \notin keys[c]
           THEN /\ return(ErrKeyNotFound, begun)
                /\ UNCHANGED <<minted, keys, fileStore, tufRepo>>
           ELSE IF ~remoteRolesValid(serverManagedRoles)
           THEN /\ return(ErrInvalidRemoteRole, begun)
                /\ UNCHANGED <<minted, keys, fileStore, tufRepo>>
           ELSE IF gathered.err # OK
           THEN /\ return(gathered.err, keyed)
                /\ minted' = minted \cup createdKeys
                /\ keys' = [keys EXCEPT ![c] = @ \cup createdKeys]
                /\ UNCHANGED <<fileStore, tufRepo>>
           ELSE /\ return(saved.err, done)
                /\ minted' = minted \cup createdKeys
                /\ keys' = [keys EXCEPT ![c] = @ \cup createdKeys]
                /\ tufRepo' = [tufRepo EXCEPT ![c] = saved.repo]
                /\ fileStore' = [fileStore EXCEPT ![c] = saved.store]
        /\ UNCHANGED <<remote, now, changelist, pc, updateRoot, updatedFiles>>

\* ------------------------------------------------------------------ Publish
\* How a request to the server is answered.
\* certs.ErrValidationFail.
ErrValidationFail == "ErrValidationFail"

\* The key of a root certificate issued for another GUN, and a root
\* anchored in it.
ForeignKey == "kforeign"
ForeignRoot ==
    [type |-> "root", version |-> 1, expires |-> 0,
     roles |-> [r \in BaseRoles |-> {ForeignKey}], sigs |-> {ForeignKey}]

\* CertManager.ValidateRoot: the root is accepted when a key of its root
\* role is a certificate for this GUN.
ValidateRoot(blob) == blob.roles[CanonicalRootRole] \ {ForeignKey} # {}

Answers == {"ok", "unavailable"}

\* A defect: a server that cannot be reached is taken for a server that has
\* no root when nothing is cached.
bootstrapClientNotFound(c, answer) ==
    LET fromBlob(blob, how) ==
            IF blob.type = "corrupt"
            THEN [err |-> ErrSyntax, repo |-> tufRepo[c], fetch |-> how]
            ELSE IF ~ValidateRoot(blob)
            THEN [err |-> ErrValidationFail, repo |-> tufRepo[c],
                  fetch |-> how]
            ELSE [err |-> OK,
                  repo |-> [NoRepo EXCEPT !.root = <<FromBlob(blob)>>],
                  fetch |-> how]
    IN  IF answer = "ok"
        THEN IF CanonicalRootRole \in DOMAIN remote
             THEN fromBlob(remote[CanonicalRootRole], "remote")
             ELSE [err |-> ErrMetaNotFound, repo |-> tufRepo[c],
                   fetch |-> "notfound"]
        ELSE IF CanonicalRootRole \in DOMAIN fileStore[c]
        THEN fromBlob(fileStore[c][CanonicalRootRole], "cache")
        ELSE [err |-> ErrMetaNotFound, repo |-> tufRepo[c],
              fetch |-> "unavailable"]

\* A defect: the Repo is replaced by an empty one before the fetched root
\* is parsed and validated.
bootstrapClientReplacesFirst(c, answer) ==
    LET fromBlob(blob, how) ==
            IF blob.type = "corrupt"
            THEN [err |-> ErrSyntax, repo |-> NoRepo, fetch |-> how]
            ELSE IF ~ValidateRoot(blob)
            THEN [err |-> ErrValidationFail, repo |-> NoRepo, fetch |-> how]
            ELSE [err |-> OK,
                  repo |-> [NoRepo EXCEPT !.root = <<FromBlob(blob)>>],
                  fetch |-> how]
    IN  IF answer = "ok"
        THEN IF CanonicalRootRole \in DOMAIN remote
             THEN fromBlob(remote[CanonicalRootRole], "remote")
             ELSE [err |-> ErrMetaNotFound, repo |-> tufRepo[c],
                   fetch |-> "notfound"]
        ELSE IF CanonicalRootRole \in DOMAIN fileStore[c]
        THEN fromBlob(fileStore[c][CanonicalRootRole], "cache")
        ELSE [err |-> ErrServerUnavailable, repo |-> tufRepo[c],
              fetch |-> "unavailable"]

\* A defect: a cached root is used without validation.
bootstrapClientTrustsCache(c, answer) ==
    LET fromBlob(blob, how) ==
            IF blob.type = "corrupt"
            THEN [err |-> ErrSyntax, repo |-> tufRepo[c], fetch |-> how]
            ELSE IF how = "remote" /\ ~ValidateRoot(blob)
            THEN [err |-> ErrValidationFail, repo |-> tufRepo[c],
                  fetch |-> how]
            ELSE [err |-> OK,
                  repo |-> [NoRepo EXCEPT !.root = <<FromBlob(blob)>>],
                  fetch |-> how]
    IN  IF answer = "ok"
        THEN IF CanonicalRootRole \in DOMAIN remote
             THEN fromBlob(remote[CanonicalRootRole], "remote")
             ELSE [err |-> ErrMetaNotFound, repo |-> tufRepo[c],
                   fetch |-> "notfound"]
        ELSE IF CanonicalRootRole \in DOMAIN fileStore[c]
        THEN fromBlob(fileStore[c][CanonicalRootRole], "cache")
        ELSE [err |-> ErrServerUnavailable, repo |-> tufRepo[c],
              fetch |-> "unavailable"]

\* bootstrapClient: the root the client starts from.  The remote root when
\* the server answers; ErrMetaNotFound when the server has none; on another
\* error the cached root, and the original error when there is no cache.
bootstrapClient(c, answer) ==
    LET fromBlob(blob, how) ==
            IF blob.type = "corrupt"
            THEN [err |-> ErrSyntax, repo |-> tufRepo[c], fetch |-> how]
            ELSE IF ~ValidateRoot(blob)
            THEN [err |-> ErrValidationFail, repo |-> tufRepo[c],
                  fetch |-> how]
            ELSE [err |-> OK,
                  repo |-> [NoRepo EXCEPT !.root = <<FromBlob(blob)>>],
                  fetch |-> how]
    IN  IF answer = "ok"
        THEN IF CanonicalRootRole \in DOMAIN remote
             THEN fromBlob(remote[CanonicalRootRole], "remote")
             ELSE [err |-> ErrMetaNotFound, repo |-> tufRepo[c],
                   fetch |-> "notfound"]
        ELSE IF CanonicalRootRole \in DOMAIN fileStore[c]
        THEN fromBlob(fileStore[c][CanonicalRootRole], "cache")
        ELSE [err |-> ErrServerUnavailable, repo |-> tufRepo[c],
              fetch |-> "unavailable"]

\* bootstrapRepo: the Repo loaded from the local MetadataStore; the
\* snapshot may be absent.
bootstrapRepo(c) ==
    LET store == fileStore[c]
        has(role) == role \in DOMAIN store
        bad(role) == has(role) /\ store[role].type = "corrupt"
        fail(e) == [err |-> e, repo |-> tufRepo[c]]
    IN  IF ~has(CanonicalRootRole) THEN fail(ErrMetaNotFound)
        ELSE IF bad(CanonicalRootRole) THEN fail(ErrSyntax)
        ELSE IF ~has(CanonicalTargetsRole) THEN fail(ErrMetaNotFound)
        ELSE IF bad(CanonicalTargetsRole) THEN fail(ErrSyntax)
        ELSE IF bad(CanonicalSnapshotRole) THEN fail(ErrSyntax)
        ELSE [err |-> OK,
              repo |->
                [root |-> <<FromBlob(store[CanonicalRootRole])>>,
                 targets |-> [r \in {CanonicalTargetsRole} |->
                                 FromBlob(store[CanonicalTargetsRole])],
                 snapshot |-> IF has(CanonicalSnapshotRole)
                              THEN <<FromBlob(store[CanonicalSnapshotRole])>>
                              ELSE <<>>]]

\* tufclient.Update: pull and verify the server's metadata into the Repo
\* and the local cache.
Update(c, repo, answer) ==
    IF answer # "ok"
    THEN [err |-> ErrServerUnavailable, repo |-> repo, store |-> fileStore[c]]
    ELSE IF CanonicalRootRole \notin DOMAIN remote
            \/ CanonicalTargetsRole \notin DOMAIN remote
    THEN [err |-> ErrMetaNotFound, repo |-> repo, store |-> fileStore[c]]
    ELSE [err |-> OK, repo |-> PulledRepo(remote), store |-> remote]

\* A call of c returns res.
Return(c, res) ==
    /\ pc' = [pc EXCEPT ![c] = "idle"]
    /\ result' = [result EXCEPT ![c] = res]

\* Versions are capped: a Publish starts only below the cap.
MaxStoreVersion(store) ==
    IF DOMAIN store = {} THEN 0
    ELSE CHOOSE v \in {store[r].version : r \in DOMAIN store} :
            \A r \in DOMAIN store : store[r].version <= v

BelowCap(c) ==
    /\ MaxStoreVersion(remote) < MaxVersion
    /\ MaxStoreVersion([r \in {x \in DOMAIN fileStore[c] :
                                  fileStore[c][x].type # "corrupt"} |->
                           fileStore[c][r]]) < MaxVersion

\* A defect: the server's metadata is not pulled; the Repo is the one of
\* the local cache.
PublishPullCached(c, boot, pullAnswer) ==
    [err |-> bootstrapRepo(c).err, repo |-> bootstrapRepo(c).repo,
     store |-> fileStore[c]]

\* Publish, lines 495-506: after a successful bootstrap, pull the rest of
\* the metadata from the server.
PublishPull(c, boot, pullAnswer) == Update(c, boot.repo, pullAnswer)

\* Publish, lines 468-506: bootstrap from the remote root and pull, or load
\* the local Repo when the server has no root.
PublishBootstrap(c, answer, pullAnswer) ==
    LET boot == bootstrapClient(c, answer)
        local == bootstrapRepo(c)
        pulled == PublishPull(c, boot, pullAnswer)
        begun == [NoCall EXCEPT !.op = "Publish",
                                !.prev = <<call[c].op, result[c]>>,
                                !.fetch = boot.fetch, !.cl0 = changelist[c],
                                !.remote0 = remote, !.at = "bootstrap",
                                !.requested = TRUE]
    IN  /\ pc[c] = "idle"
        /\ BelowCap(c)
        /\ call' = [call EXCEPT ![c] = begun]
        /\ updatedFiles' = [updatedFiles EXCEPT ![c] = <<>>]
        /\ IF boot.err = ErrMetaNotFound
           THEN /\ tufRepo' = [tufRepo EXCEPT ![c] = local.repo]
                /\ updateRoot' = [updateRoot EXCEPT ![c] = (local.err = OK)]
                /\ IF local.err = OK
                   THEN /\ pc' = [pc EXCEPT ![c] = "apply"]
                        /\ UNCHANGED result
                   ELSE Return(c, local.err)
                /\ UNCHANGED fileStore
           ELSE IF boot.err # OK
           THEN /\ Return(c, boot.err)
                /\ updateRoot' = [updateRoot EXCEPT ![c] = FALSE]
                /\ tufRepo' = [tufRepo EXCEPT ![c] = boot.repo]
                /\ UNCHANGED fileStore
           ELSE /\ tufRepo' = [tufRepo EXCEPT ![c] = pulled.repo]
                /\ fileStore' = [fileStore EXCEPT ![c] = pulled.store]
                /\ updateRoot' = [updateRoot EXCEPT ![c] = FALSE]
                /\ IF pulled.err = OK
                   THEN /\ pc' = [pc EXCEPT ![c] = "apply"]
                        /\ UNCHANGED result
                   ELSE Return(c, pulled.err)
        /\ UNCHANGED <<remote, minted, now, keys, changelist>>

\* A defect: the error of the replay is dropped and Publish goes on.
PublishApplyIgnoresError(c) ==
    LET res == applyChangelist(tufRepo[c], changelist[c])
    IN  /\ pc[c] = "apply"
        /\ tufRepo' = [tufRepo EXCEPT ![c] = res.repo]
        /\ call' = [call EXCEPT ![c].applied = res.applied, ![c].at = "apply"]
        /\ pc' = [pc EXCEPT ![c] = "sign"]
        /\ UNCHANGED <<remote, minted, now, keys, fileStore, changelist,
                       updateRoot, updatedFiles, result>>

\* Publish, lines 507-516: replay the changelist against the Repo.
PublishApply(c) ==
    LET res == applyChangelist(tufRepo[c], changelist[c])
    IN  /\ pc[c] = "apply"
        /\ tufRepo' = [tufRepo EXCEPT ![c] = res.repo]
        /\ call' = [call EXCEPT ![c].applied = res.applied, ![c].at = "apply"]
        /\ IF res.err = OK
           THEN /\ pc' = [pc EXCEPT ![c] = "sign"]
                /\ UNCHANGED result
           ELSE Return(c, res.err)
        /\ UNCHANGED <<remote, minted, now, keys, fileStore, changelist,
                       updateRoot, updatedFiles>>

\* A defect: the initial root of a repository the server does not know is
\* not forced into the upload.
RootNeedsUpdateNoForce(root, forced) == nearExpiry(root, now) \/ root.dirty

\* A defect: a root about to expire is not re-signed.
RootNeedsUpdateNoExpiry(root, forced) == root.dirty \/ forced

\* Publish, line 523: the root is re-signed when it nears expiry, is dirty
\* or must be pushed for the first time.
RootNeedsUpdate(root, forced) == nearExpiry(root, now) \/ root.dirty \/ forced

\* A store with one more blob.
WithFile(files, role, blob) ==
    [r \in DOMAIN files \cup {role} |-> IF r = role THEN blob ELSE files[r]]

\* A defect: the targets role is re-signed only when a change touched it.
SignedTargetsWhenDirty(repo, held) ==
    IF repo.targets[CanonicalTargetsRole].dirty
    THEN serializeCanonicalRole(repo, CanonicalTargetsRole, held, now)
    ELSE Signed(repo, ToBlob(repo.targets[CanonicalTargetsRole]))

\* Publish, lines 531-536: targets is always re-signed.
SignedTargets(repo, held) ==
    serializeCanonicalRole(repo, CanonicalTargetsRole, held, now)

\* A defect: a snapshot that cannot be signed for want of a key ends Publish.
SignedSnapshotFatalNoKeys(ss, files) ==
    IF ss.err = OK
    THEN [repo |-> ss.repo, err |-> OK,
          files |-> WithFile(files, CanonicalSnapshotRole, ss.blob[1])]
    ELSE [repo |-> ss.repo, err |-> ss.err, files |-> files]

\* Publish, lines 547-562: the snapshot joins the files when it was signed;
\* ErrNoKeys is passed over, any other error ends Publish.
SignedSnapshot(ss, files) ==
    IF ss.err = OK
    THEN [repo |-> ss.repo, err |-> OK,
          files |-> WithFile(files, CanonicalSnapshotRole, ss.blob[1])]
    ELSE IF ss.err = ErrNoKeys
    THEN [repo |-> ss.repo, err |-> OK, files |-> files]
    ELSE [repo |-> ss.repo, err |-> ss.err, files |-> files]

\* A defect: the snapshot is signed before targets is re-signed.
SignUpdatedFilesSnapshotFirst(repo, held, forced) ==
    LET needRoot == RootNeedsUpdate(repo.root[1], forced)
        sr == IF needRoot
              THEN serializeCanonicalRole(repo, CanonicalRootRole, held, now)
              ELSE [repo |-> repo, err |-> OK, blob |-> <<>>]
        files1 == IF needRoot /\ sr.err = OK
                  THEN WithFile(<<>>, CanonicalRootRole, sr.blob[1])
                  ELSE <<>>
        withSnapshot == IF sr.repo.snapshot = <<>> THEN InitSnapshot(sr.repo)
                        ELSE sr.repo
        ss == serializeCanonicalRole(withSnapshot, CanonicalSnapshotRole,
                                     held, now)
        st == SignedTargets(ss.repo, held)
        files2 == IF st.err = OK
                  THEN WithFile(files1, CanonicalTargetsRole, st.blob[1])
                  ELSE files1
    IN  IF sr.err # OK
        THEN [repo |-> sr.repo, err |-> sr.err, files |-> <<>>]
        ELSE IF st.err # OK
        THEN [repo |-> st.repo, err |-> st.err, files |-> files1]
        ELSE SignedSnapshot([ss EXCEPT !.repo = st.repo], files2)

\* Publish, lines 518-562: the files to send.  Root when it needs an
\* update, targets always, the snapshot unless no snapshot key is held.
SignUpdatedFiles(repo, held, forced) ==
    LET needRoot == RootNeedsUpdate(repo.root[1], forced)
        sr == IF needRoot
              THEN serializeCanonicalRole(repo, CanonicalRootRole, held, now)
              ELSE [repo |-> repo, err |-> OK, blob |-> <<>>]
        files1 == IF needRoot /\ sr.err = OK
                  THEN WithFile(<<>>, CanonicalRootRole, sr.blob[1])
                  ELSE <<>>
        st == SignedTargets(sr.repo, held)
        files2 == IF st.err = OK
                  THEN WithFile(files1, CanonicalTargetsRole, st.blob[1])
                  ELSE files1
        withSnapshot == IF st.repo.snapshot = <<>> THEN InitSnapshot(st.repo)
                        ELSE st.repo
        ss == serializeCanonicalRole(withSnapshot, CanonicalSnapshotRole,
                                     held, now)
    IN  IF sr.err # OK
        THEN [repo |-> sr.repo, err |-> sr.err, files |-> <<>>]
        ELSE IF st.err # OK
        THEN [repo |-> st.repo, err |-> st.err, files |-> files1]
        ELSE SignedSnapshot(ss, files2)

\* A defect: each file is uploaded as soon as it is signed.
PublishSignUploads(c) ==
    LET res == SignUpdatedFiles(tufRepo[c], keys[c], updateRoot[c])
    IN  /\ pc[c] = "sign"
        /\ tufRepo' = [tufRepo EXCEPT ![c] = res.repo]
        /\ updatedFiles' = [updatedFiles EXCEPT ![c] = res.files]
        /\ remote' = SetMultiMeta(remote, res.files).store
        /\ IF res.err = OK
           THEN /\ pc' = [pc EXCEPT ![c] = "push"]
                /\ UNCHANGED result
           ELSE Return(c, res.err)
        /\ call' = [call EXCEPT ![c].at = "sign",
                                ![c].asked = UNION {res.files[r].sigs :
                                                      r \in DOMAIN res.files}]
        /\ UNCHANGED <<minted, now, keys, fileStore, changelist, updateRoot>>

PublishSign(c) ==
    LET res == SignUpdatedFiles(tufRepo[c], keys[c], updateRoot[c])
    IN  /\ pc[c] = "sign"
        /\ tufRepo' = [tufRepo EXCEPT ![c] = res.repo]
        /\ updatedFiles' = [updatedFiles EXCEPT ![c] = res.files]
        /\ IF res.err = OK
           THEN /\ pc' = [pc EXCEPT ![c] = "push"]
                /\ UNCHANGED result
           ELSE Return(c, res.err)
        /\ call' = [call EXCEPT ![c].at = "sign",
                                ![c].asked = UNION {res.files[r].sigs :
                                                      r \in DOMAIN res.files}]
        /\ UNCHANGED <<remote, minted, now, keys, fileStore, changelist,
                       updateRoot>>

\* A defect: the changelist is cleared before the upload's outcome is known.
PublishPushClearsFirst(c, answer) ==
    LET res == SetMultiMeta(remote, updatedFiles[c])
    IN  /\ pc[c] = "push"
        /\ call' = [call EXCEPT ![c].sent = TRUE, ![c].at = "push"]
        /\ changelist' = [changelist EXCEPT ![c] = <<>>]
        /\ IF answer # "ok"
           THEN /\ Return(c, ErrServerUnavailable)
                /\ UNCHANGED remote
           ELSE /\ remote' = res.store
                /\ IF res.err = OK
                   THEN /\ pc' = [pc EXCEPT ![c] = "clear"]
                        /\ UNCHANGED result
                   ELSE Return(c, res.err)
        /\ UNCHANGED <<minted, now, keys, fileStore, tufRepo, updateRoot,
                       updatedFiles>>

\* Publish, lines 564-572: one SetMultiMeta with all the updated files.
PublishPush(c, answer) ==
    LET res == SetMultiMeta(remote, updatedFiles[c])
    IN  /\ pc[c] = "push"
        /\ call' = [call EXCEPT ![c].sent = TRUE, ![c].at = "push"]
        /\ IF answer # "ok"
           THEN /\ Return(c, ErrServerUnavailable)
                /\ UNCHANGED remote
           ELSE /\ remote' = res.store
                /\ IF res.err = OK
                   THEN /\ pc' = [pc EXCEPT ![c] = "clear"]
                        /\ UNCHANGED result
                   ELSE Return(c, res.err)
        /\ UNCHANGED <<minted, now, keys, fileStore, changelist, tufRepo,
                       updateRoot, updatedFiles>>

\* A defect: a failure of Clear is returned to the caller.
PublishClearFatal(c, cleared) ==
    /\ pc[c] = "clear"
    /\ changelist' = [changelist EXCEPT ![c] = IF cleared THEN <<>> ELSE @]
    /\ call' = [call EXCEPT ![c].cleared = cleared, ![c].at = "clear"]
    /\ Return(c, IF cleared THEN OK ELSE "ErrClear")
    /\ UNCHANGED <<remote, minted, now, keys, fileStore, tufRepo, updateRoot,
                   updatedFiles>>

\* Publish, lines 573-580: clear the changelist; a failure is only logged.
PublishClear(c, cleared) ==
    /\ pc[c] = "clear"
    /\ changelist' = [changelist EXCEPT ![c] = IF cleared THEN <<>> ELSE @]
    /\ call' = [call EXCEPT ![c].cleared = cleared, ![c].at = "clear"]
    /\ Return(c, OK)
    /\ UNCHANGED <<remote, minted, now, keys, fileStore, tufRepo, updateRoot,
                   updatedFiles>>

\* The process is stopped after the upload and before the changelist is
\* cleared: Publish never returns.
PublishInterrupted(c) ==
    /\ pc[c] = "clear"
    /\ Return(c, "interrupted")
    /\ UNCHANGED <<remote, minted, now, keys, fileStore, changelist, tufRepo,
                   updateRoot, updatedFiles, call>>

\* -------------------------------------------------------------- ListTargets
\* A defect: the targets of every role the server holds are listed.
ListTargetsEveryRole(c, answer, pullAnswer) ==
    LET boot == bootstrapClient(c, answer)
        pulled == Update(c, boot.repo, pullAnswer)
        begun == [NoCall EXCEPT !.op = "ListTargets", !.fetch = boot.fetch,
                                !.cl0 = changelist[c], !.remote0 = remote,
                                !.requested = TRUE]
    IN  /\ pc[c] = "idle"
        /\ IF boot.err # OK
           THEN /\ result' = [result EXCEPT ![c] = boot.err]
                /\ call' = [call EXCEPT ![c] = begun]
                /\ tufRepo' = [tufRepo EXCEPT ![c] = boot.repo]
                /\ UNCHANGED fileStore
           ELSE /\ result' = [result EXCEPT ![c] = pulled.err]
                /\ tufRepo' = [tufRepo EXCEPT ![c] = pulled.repo]
                /\ fileStore' = [fileStore EXCEPT ![c] = pulled.store]
                /\ call' = [call EXCEPT ![c] =
                      [begun EXCEPT !.listed =
                          IF pulled.err = OK
                          THEN UNION {pulled.repo.targets[r].targets :
                                         r \in DOMAIN pulled.repo.targets}
                          ELSE {}]]
        /\ UNCHANGED <<remote, minted, now, keys, changelist, pc, updateRoot,
                       updatedFiles>>

\* ListTargets: bootstrap, pull, and list the targets of the targets role.
ListTargets(c, answer, pullAnswer) ==
    LET boot == bootstrapClient(c, answer)
        pulled == Update(c, boot.repo, pullAnswer)
        begun == [NoCall EXCEPT !.op = "ListTargets", !.fetch = boot.fetch,
                                !.cl0 = changelist[c], !.remote0 = remote,
                                !.requested = TRUE]
    IN  /\ pc[c] = "idle"
        /\ IF boot.err # OK
           THEN /\ result' = [result EXCEPT ![c] = boot.err]
                /\ call' = [call EXCEPT ![c] = begun]
                /\ tufRepo' = [tufRepo EXCEPT ![c] = boot.repo]
                /\ UNCHANGED fileStore
           ELSE /\ result' = [result EXCEPT ![c] = pulled.err]
                /\ tufRepo' = [tufRepo EXCEPT ![c] = pulled.repo]
                /\ fileStore' = [fileStore EXCEPT ![c] = pulled.store]
                /\ call' = [call EXCEPT ![c] =
                      [begun EXCEPT !.listed =
                          IF pulled.err = OK
                          THEN pulled.repo.targets[CanonicalTargetsRole].targets
                          ELSE {}]]
        /\ UNCHANGED <<remote, minted, now, keys, changelist, pc, updateRoot,
                       updatedFiles>>

\* -------------------------------------------------------------------- clock
\* Time passes between two sessions with a published repository.
Tick ==
    /\ now < MaxNow
    /\ CanonicalRootRole \in DOMAIN remote
    /\ \A c \in Clients : pc[c] = "idle"
    /\ now' = now + 1
    /\ UNCHANGED <<remote, minted, keys, fileStore, changelist, tufRepo, pc,
                   updateRoot, updatedFiles, result, call>>

\* ------------------------------------------------------------ specification
\* The inputs of the owner's calls.
ManagedChoices == {<<>>, <<CanonicalSnapshotRole>>}
RoleLists == {<<>>, <<RoleA>>}
StagedTargets == {"t1"}
DelegationNames == {RoleA, RoleAB}
RotateChoices ==
    {<<CanonicalTargetsRole, FALSE>>, <<CanonicalSnapshotRole, FALSE>>,
     <<CanonicalSnapshotRole, TRUE>>}
RemovableKeys == {KeyPool.snapshot[1]}

\* Removals and key rotations open a session: they are staged on an empty
\* changelist.
Quiescent(c) == pc[c] = "idle" /\ changelist[c] = <<>>

Next ==
    \/ \E m \in ManagedChoices :
          Initialize(Owner, RootKey, m, 0, ServerKeyRoles, "ok")
    \/ \E t \in StagedTargets, roles \in RoleLists : AddTarget(Owner, t, roles)
    \/ \E t \in StagedTargets : Quiescent(Owner) /\ RemoveTarget(Owner, t, <<>>)
    \/ \E n \in DelegationNames : AddDelegation(Owner, n, 1, {DelegKey1})
    \/ Quiescent(Owner) /\ RemoveDelegation(Owner, RoleA)
    \/ \E rc \in RotateChoices :
          Quiescent(Owner) /\ RotateKey(Owner, rc[1], rc[2], TRUE)
    \/ \E k \in RemovableKeys : Quiescent(Owner) /\ RemoveKey(Owner, k)
    \/ \E a \in Answers, pa \in Answers : PublishBootstrap(Owner, a, pa)
    \/ PublishApply(Owner)
    \/ PublishSign(Owner)
    \/ \E a \in Answers : PublishPush(Owner, a)
    \/ \E cleared \in BOOLEAN : PublishClear(Owner, cleared)
    \/ PublishInterrupted(Owner)
    \/ Tick

Spec == Init /\ [][Next]_vars

\* Two clients: the owner, and a collaborator who holds nothing but a key of
\* the delegation targets/a.  They publish one after the other, against a
\* server that answers.
OthersIdle(c) == \A d \in Clients \ {c} : pc[d] = "idle"
TargetOf == [c \in Clients |-> IF c = Owner THEN "t1" ELSE "t2"]

NextTwo ==
    \/ Initialize(Owner, RootKey, <<CanonicalSnapshotRole>>, 0, ServerKeyRoles,
                  "ok")
    \/ AddDelegation(Owner, RoleA, 1, {DelegKey1, DelegKey2})
    \/ \E c \in Clients, roles \in RoleLists : AddTarget(c, TargetOf[c], roles)
    \/ \E c \in Clients : OthersIdle(c) /\ PublishBootstrap(c, "ok", "ok")
    \/ \E c \in Clients : PublishApply(c)
    \/ \E c \in Clients : PublishSign(c)
    \/ \E c \in Clients : PublishPush(c, "ok")
    \/ \E c \in Clients : PublishClear(c, TRUE)
    \/ \E c \in Clients : OthersIdle(c) /\ ListTargets(c, "ok", "ok")

SpecTwo == Init /\ [][NextTwo]_vars

\* ---------------------------------------------------------------- properties
PublishCall(c) == call[c].op = "Publish"

\* Publish has returned to its caller.
Returned(c) == PublishCall(c) /\ pc[c] = "idle" /\ result[c] # "interrupted"

\* The Repo Publish replays the changelist against: the local one when the
\* server had no root, the pulled one otherwise.
Loaded(c) ==
    IF call[c].fetch = "notfound" THEN bootstrapRepo(c).repo
    ELSE PulledRepo(call[c].remote0)

\* The Repo after the first k changes of cl, one after the other.
RECURSIVE ReplayPrefix(_, _, _)
ReplayPrefix(repo, cl, k) ==
    IF k = 0 THEN repo
    ELSE applyChange(ReplayPrefix(repo, cl, k - 1), cl[k]).repo

\* What a store says, whatever the versions, expiry dates and signatures.
Content(store) ==
    [roles |-> store[CanonicalRootRole].roles,
     targets |-> store[CanonicalTargetsRole].targets,
     delegations |-> store[CanonicalTargetsRole].delegations]

\* The Publish steps that follow signing.
PastSigning(c) == pc[c] \in {"push", "clear"} \/ call[c].at \in {"push", "clear"}

\* C1: when the server has no root at the start of Publish and the local
\* store holds the repository, Publish does not fail with the NotFound: it
\* replays the changelist against the Repo loaded from the local store, and
\* every upload it sends carries the root, dirty and near expiry or not.
C1_LocalLoadPushesRoot ==
    \A c \in Clients :
        (PublishCall(c) /\ call[c].fetch = "notfound"
            /\ bootstrapRepo(c).err = OK) =>
            /\ pc[c] = "apply" => tufRepo[c] = bootstrapRepo(c).repo
            /\ pc[c] = "idle" => result[c] # ErrMetaNotFound
            /\ PastSigning(c) => CanonicalRootRole \in DOMAIN updatedFiles[c]

C1_Witness ==
    \E c \in Clients :
        /\ PublishCall(c) /\ call[c].fetch = "notfound"
        /\ call[c].cl0 = <<>> /\ pc[c] = "clear"
        /\ ~nearExpiry(bootstrapRepo(c).repo.root[1], now)
        /\ ~bootstrapRepo(c).repo.root[1].dirty
        /\ CanonicalRootRole \in DOMAIN updatedFiles[c]
        /\ CanonicalRootRole \in DOMAIN remote

C3_PushedFiles ==
    \A c \in Clients :
        (PublishCall(c) /\ pc[c] \in {"push", "clear"}) =>
            LET files == updatedFiles[c]
                before == Loaded(c).targets[CanonicalTargetsRole]
            IN  /\ CanonicalTargetsRole \in DOMAIN files
                /\ files[CanonicalTargetsRole].version = before.version + 1
                /\ files[CanonicalTargetsRole].sigs # {}
                /\ files[CanonicalTargetsRole] =
                      ToBlob(tufRepo[c].targets[CanonicalTargetsRole])
                /\ CanonicalRootRole \in DOMAIN files <=>
                      \/ nearExpiry(Loaded(c).root[1], now)
                      \/ tufRepo[c].root[1].dirty
                      \/ call[c].fetch = "notfound"

C3_Witness ==
    \E c \in Clients :
        /\ PublishCall(c) /\ pc[c] = "push" /\ call[c].fetch = "remote"
        /\ nearExpiry(Loaded(c).root[1], now)
        /\ ~tufRepo[c].root[1].dirty
        /\ CanonicalRootRole \in DOMAIN updatedFiles[c]

\* The client holds a key the Repo's root authorizes for the role.
CanSign(c, role) == keys[c] \cap tufRepo[c].root[1].roles[role] # {}

ServerManagesSnapshot(c) ==
    ServerSnapshotKey \in tufRepo[c].root[1].roles[CanonicalSnapshotRole]

\* C4 (as stated): Publish goes on to the push without a snapshot blob only
\* if the root designates the snapshot as server-managed.
C4_Original ==
    \A c \in Clients :
        (PublishCall(c) /\ PastSigning(c)
            /\ CanonicalSnapshotRole \notin DOMAIN updatedFiles[c]) =>
            ServerManagesSnapshot(c)

\* C4 (amended): ErrNoKeys from signing the snapshot never ends Publish:
\* whenever the client holds no authorized snapshot key, Publish goes on to
\* the push and sends no snapshot blob.  The server accepts that upload when
\* the root designates the server's snapshot key, and refuses it with
\* ErrBadHierarchy when it does not.
C4_NoKeysAlwaysSwallowed ==
    \A c \in Clients :
        PublishCall(c) =>
            /\ (Returned(c) /\ call[c].at = "sign"
                    /\ result[c] = ErrNoKeys) =>
                  \/ ~CanSign(c, CanonicalTargetsRole)
                  \/ ~CanSign(c, CanonicalRootRole)
            /\ PastSigning(c) =>
                  (CanonicalSnapshotRole \in DOMAIN updatedFiles[c]
                      <=> CanSign(c, CanonicalSnapshotRole))
            /\ (Returned(c) /\ call[c].at = "push"
                    /\ result[c] # ErrServerUnavailable
                    /\ CanonicalSnapshotRole \notin DOMAIN updatedFiles[c]) =>
                  (result[c] = ErrBadHierarchy /\ ~ServerManagesSnapshot(c))
            /\ (call[c].at = "clear"
                    /\ CanonicalSnapshotRole \notin DOMAIN updatedFiles[c]) =>
                  ServerManagesSnapshot(c)

C4_Witness ==
    \E c \in Clients :
        /\ Returned(c) /\ call[c].at = "push"
        /\ CanonicalSnapshotRole \notin DOMAIN updatedFiles[c]
        /\ ~CanSign(c, CanonicalSnapshotRole)
        /\ ~ServerManagesSnapshot(c)
        /\ result[c] = ErrBadHierarchy

\* C5: a Publish whose upload was accepted returns success; the changelist
\* is then empty, unless Clear failed, and then it is as it was.
C5_ClearedOnSuccess ==
    \A c \in Clients :
        (PublishCall(c) /\ call[c].at = "clear" /\ pc[c] = "idle") =>
            /\ result[c] = OK
            /\ call[c].cleared => changelist[c] = <<>>
            /\ ~call[c].cleared => changelist[c] = call[c].cl0

C5_Witness ==
    \E c \in Clients :
        /\ Returned(c) /\ result[c] = OK
        /\ ~call[c].cleared
        /\ changelist[c] # <<>>

\* C6: while Publish runs, and when it has returned an error, the changelist
\* holds the changes it held when the call began, in the same order.
C6_ErrorKeepsChangelist ==
    \A c \in Clients :
        (PublishCall(c) /\ (pc[c] # "idle" \/ result[c] # OK)) =>
            changelist[c] = call[c].cl0

C6_Witness ==
    \E c \in Clients :
        /\ Returned(c) /\ call[c].at = "push"
        /\ result[c] = ErrServerUnavailable
        /\ Len(changelist[c]) = MaxChanges

\* This Publish follows a Publish that was stopped after its upload was
\* accepted and before Clear: it replays the same, residual, changelist.
Resumed(c) == PublishCall(c) /\ call[c].prev = <<"Publish", "interrupted">>

IsDelegationChange(ch, action) ==
    ch.type = TypeTargetsDelegation /\ ch.action = action

\* The list creates a delegation of the targets role.
CreatesTopDelegation(cl) ==
    \E i \in 1..Len(cl) :
        /\ IsDelegationChange(cl[i], ActionCreate)
        /\ ParentRole(cl[i].scope) = CanonicalTargetsRole

DeletesDelegation(cl) ==
    \E i \in 1..Len(cl) : IsDelegationChange(cl[i], ActionDelete)

\* C7 (as stated): a Publish that replays the residual changelist of an
\* interrupted Publish succeeds, whatever the residual changes, whenever the
\* server answers.
C7_Original ==
    \A c \in Clients :
        (Resumed(c) /\ Returned(c) /\ result[c] # ErrServerUnavailable) =>
            /\ result[c] = OK
            /\ Content(remote) = Content(call[c].remote0)

\* C7 (amended): a Publish that replays the residual changelist of an
\* interrupted Publish succeeds and leaves the server saying what it said
\* after the interrupted upload when the residual list creates no delegation
\* of the targets role.  When the list creates one and deletes none, the
\* role already exists on the server: the replay fails with ErrInvalidRole,
\* nothing is sent and the changelist stays.
C7_ResumedPublish ==
    \A c \in Clients :
        (Resumed(c) /\ Returned(c) /\ result[c] # ErrServerUnavailable) =>
            /\ ~CreatesTopDelegation(call[c].cl0) =>
                  /\ result[c] = OK
                  /\ Content(remote) = Content(call[c].remote0)
            /\ (CreatesTopDelegation(call[c].cl0)
                    /\ ~DeletesDelegation(call[c].cl0)) =>
                  /\ result[c] = ErrInvalidRole
                  /\ call[c].at = "apply" /\ ~call[c].sent
                  /\ remote = call[c].remote0
                  /\ changelist[c] = call[c].cl0

C7_Witness ==
    \E c \in Clients :
        /\ Resumed(c) /\ Returned(c) /\ result[c] = OK
        /\ Len(call[c].cl0) = MaxChanges
        /\ \E i \in 1..Len(call[c].cl0) : call[c].cl0[i].type = TypeRootRole
        /\ \E i \in 1..Len(call[c].cl0) :
              call[c].cl0[i].type = TypeTargetsTarget

\* This Publish follows a successful Publish, with nothing staged.
Republish(c) ==
    /\ PublishCall(c) /\ call[c].prev = <<"Publish", OK>>
    /\ call[c].cl0 = <<>>

PublishedRoles ==
    {CanonicalRootRole, CanonicalTargetsRole, CanonicalSnapshotRole}

\* C8 (as stated): after a successful Publish that follows a successful
\* Publish with nothing staged, the server holds the bytes it held before
\* for root, targets and snapshot.
C8_Original ==
    \A c \in Clients :
        (Republish(c) /\ Returned(c) /\ result[c] = OK) =>
            \A r \in PublishedRoles : remote[r] = call[c].remote0[r]

\* C8 (amended): after a successful Publish that follows a successful
\* Publish with nothing staged, the server says what it said before, but
\* targets was signed again, one version higher, and the snapshot with it;
\* the root is the same blob unless it was near expiry.
C8_RepublishResigns ==
    \A c \in Clients :
        (Republish(c) /\ Returned(c) /\ result[c] = OK) =>
            /\ Content(remote) = Content(call[c].remote0)
            /\ remote[CanonicalTargetsRole].version =
                  call[c].remote0[CanonicalTargetsRole].version + 1
            /\ remote[CanonicalSnapshotRole] #
                  call[c].remote0[CanonicalSnapshotRole]
            /\ \/ remote[CanonicalRootRole] = call[c].remote0[CanonicalRootRole]
               \/ CanonicalRootRole \in DOMAIN updatedFiles[c]

C8_Witness ==
    \E c \in Clients :
        /\ Republish(c) /\ Returned(c) /\ result[c] = OK
        /\ remote[CanonicalRootRole] = call[c].remote0[CanonicalRootRole]
        /\ remote[CanonicalTargetsRole] # call[c].remote0[CanonicalTargetsRole]

\* The change creates the delegation called name.
CreatesRole(ch, name) ==
    IsDelegationChange(ch, ActionCreate) /\ ch.scope = name

\* C9: Publish replays the changelist in insertion order, each change
\* against the Repo the earlier ones left: creating targets/a and then
\* targets/a/b in one list gets past both.  The replay stops at the first
\* change that fails: Publish returns that change's error, the Repo holds
\* the earlier changes and no later one, and nothing is sent.
C9_ReplayInOrder ==
    \A c \in Clients :
        (PublishCall(c) /\ call[c].at # "bootstrap") =>
            LET cl == call[c].cl0
                k == call[c].applied
            IN  /\ \A i \in 1..k :
                      applyChange(ReplayPrefix(Loaded(c), cl, i - 1),
                                  cl[i]).err = OK
                /\ (Len(cl) >= 2 /\ CreatesRole(cl[1], RoleA)
                        /\ CreatesRole(cl[2], RoleAB)
                        /\ ~RoleExtant(Loaded(c), RoleA)) => k >= 2
                /\ (call[c].at = "apply" /\ pc[c] = "idle") =>
                      /\ k < Len(cl)
                      /\ tufRepo[c] = ReplayPrefix(Loaded(c), cl, k)
                      /\ result[c] = applyChange(tufRepo[c], cl[k + 1]).err
                      /\ result[c] # OK
                      /\ ~call[c].sent /\ remote = call[c].remote0
                /\ (pc[c] = "sign" \/ PastSigning(c)) => k = Len(cl)
                /\ pc[c] = "sign" =>
                      tufRepo[c] = ReplayPrefix(Loaded(c), cl, Len(cl))

C9_Witness ==
    \E c \in Clients :
        /\ Returned(c) /\ call[c].at = "apply"
        /\ Len(call[c].cl0) = MaxChanges /\ call[c].applied = 1
        /\ CreatesRole(call[c].cl0[1], RoleA)
        /\ result[c] = ErrInvalidRole

\* The client holds a key the server's targets role authorizes for the
\* delegation.
HoldsDelegationKey(c, store, role) ==
    /\ CanonicalRootRole \in DOMAIN store
    /\ CanonicalTargetsRole \in DOMAIN store
    /\ keys[c] \cap AuthorizedKeys(PulledRepo(store), role) # {}

\* The list adds targets to the role and does nothing else.
AddsTargetsTo(cl, role) ==
    /\ cl # <<>>
    /\ \A i \in 1..Len(cl) :
          /\ cl[i].type = TypeTargetsTarget
          /\ cl[i].action = ActionCreate
          /\ cl[i].scope = role

\* C10 (as stated): a client that holds an authorized key of targets/a and
\* publishes targets added to targets/a succeeds, and a client that lists the
\* targets after a fresh pull finds every target so published.
C10_Original ==
    /\ \A c \in Clients :
          (Returned(c) /\ AddsTargetsTo(call[c].cl0, RoleA)
              /\ HoldsDelegationKey(c, call[c].remote0, RoleA)) =>
              result[c] = OK
    /\ \A c, d \in Clients :
          (Returned(c) /\ result[c] = OK /\ AddsTargetsTo(call[c].cl0, RoleA)
              /\ call[d].op = "ListTargets" /\ result[d] = OK
              /\ call[d].remote0 = remote) =>
              \A i \in 1..Len(call[c].cl0) :
                  call[c].cl0[i].path \in call[d].listed

\* What a targets role says, whatever its version and signatures.
RoleContent(t) == [targets |-> t.targets, delegations |-> t.delegations]

\* The targets roles the replay of this Publish changed or brought to life.
ChangedRoles(c) ==
    {r \in DOMAIN tufRepo[c].targets :
        \/ r \notin DOMAIN Loaded(c).targets
        \/ RoleContent(tufRepo[c].targets[r]) #
              RoleContent(Loaded(c).targets[r])}

\* The server accepted the upload of this Publish.
Accepted(c) == PublishCall(c) /\ (pc[c] = "clear" \/ call[c].at = "clear")

\* C11 (as stated): the upload of a Publish carries the signed blob of every
\* targets role the replay changed, delegated roles included, so that a
\* fresh pull finds under the delegated role the targets staged for it.
C11_Original ==
    \A c \in Clients :
        Accepted(c) =>
            \A r \in ChangedRoles(c) :
                /\ r \in DOMAIN updatedFiles[c]
                /\ r \in DOMAIN PulledRepo(remote).targets
                /\ PulledRepo(remote).targets[r].targets =
                      tufRepo[c].targets[r].targets

\* ------------------------------------------- the applier on a Repo by itself
\* testutils.EmptyRepo: a Repo with a root, an empty targets and an empty
\* snapshot, nothing signed and nothing stored.
EmptyRepo(c) ==
    LET roleKeys ==
            [r \in BaseRoles |->
                CASE r = CanonicalRootRole -> {RootKey}
                  [] r = CanonicalTargetsRole -> {KeyPool.targets[1]}
                  [] r = CanonicalSnapshotRole -> {KeyPool.snapshot[1]}
                  [] OTHER -> {ServerTimestampKey}]
    IN  /\ c = Owner
        /\ pc[c] = "idle"
        /\ tufRepo[c] = NoRepo
        /\ tufRepo' = [tufRepo EXCEPT ![c] =
               InitSnapshot(InitTargets(InitRoot(NoRepo, roleKeys),
                                        CanonicalTargetsRole))]
        /\ call' = [call EXCEPT ![c] = NoCall]
        /\ UNCHANGED <<remote, minted, now, keys, fileStore, changelist, pc,
                       updateRoot, updatedFiles, result>>

\* applyChangelist(repo, cl) on the Repo as it stands; the call record keeps
\* the list, the Repo before and the number of changes applied.
ApplyChanges(c, cl) ==
    LET res == applyChangelist(tufRepo[c], cl)
    IN  /\ pc[c] = "idle"
        /\ tufRepo[c].root # <<>>
        /\ tufRepo' = [tufRepo EXCEPT ![c] = res.repo]
        /\ result' = [result EXCEPT ![c] = res.err]
        /\ call' = [call EXCEPT ![c] =
               [NoCall EXCEPT !.op = "applyChangelist", !.cl0 = cl,
                              !.repo0 = tufRepo[c], !.applied = res.applied]]
        /\ UNCHANGED <<remote, minted, now, keys, fileStore, changelist, pc,
                       updateRoot, updatedFiles>>

\* The delegation contents the applier is given: a create with paths, with
\* path hash prefixes or with both; an update that swaps the key, adds a
\* path, adds a prefix or clears every path rule.
CreateContents ==
    {TufDelegation(1, {DelegKey1}, {}, {"p"}, {}, {}, {}, FALSE),
     TufDelegation(1, {DelegKey1}, {}, {}, {}, {"h"}, {}, FALSE),
     TufDelegation(1, {DelegKey1}, {}, {"p"}, {}, {"h"}, {}, FALSE)}
UpdateContents ==
    {TufDelegation(0, {DelegKey2}, {DelegKey1}, {}, {}, {}, {}, FALSE),
     TufDelegation(0, {}, {}, {"p"}, {}, {}, {}, FALSE),
     TufDelegation(0, {}, {}, {}, {}, {"h"}, {}, FALSE),
     TufDelegation(0, {}, {}, {}, {}, {}, {}, TRUE)}

DelegationChanges ==
    {NewTufChange(ActionCreate, n, TypeTargetsDelegation, "", d) :
        n \in {RoleA, RoleB}, d \in CreateContents}
    \cup {NewTufChange(ActionCreate, RoleAB, TypeTargetsDelegation, "",
              TufDelegation(1, {DelegKey1}, {}, {"p"}, {}, {}, {}, FALSE))}
    \cup {NewTufChange(ActionUpdate, n, TypeTargetsDelegation, "", d) :
        n \in {RoleA, RoleB}, d \in UpdateContents}
    \cup {NewTufChange(ActionDelete, n, TypeTargetsDelegation, "", NoContent) :
        n \in {RoleA, RoleB}}

TargetChanges ==
    {NewTufChange(ActionCreate, r, TypeTargetsTarget, "t1", MetaContent) :
        r \in {CanonicalTargetsRole, RoleA}}
    \cup {NewTufChange(ActionDelete, r, TypeTargetsTarget, "t1", NoContent) :
        r \in {CanonicalTargetsRole, RoleA}}

\* The lists replayed: every single change, every pair of target changes and
\* a target change followed by a delegation create.
AppliedLists ==
    {<<ch>> : ch \in DelegationChanges \cup TargetChanges}
    \cup {<<a, b>> : a \in TargetChanges, b \in TargetChanges}
    \cup {<<a, b>> : a \in TargetChanges,
                     b \in {ch \in DelegationChanges :
                               ch.action = ActionCreate /\ ch.scope = RoleA}}

NextApplier ==
    \/ EmptyRepo(Owner)
    \/ \E cl \in AppliedLists : ApplyChanges(Owner, cl)

SpecApplier == Init /\ [][NextApplier]_vars

\* ------------------------------------------------- properties of the applier
\* The last call replayed a list on the Repo.
Replayed(c) == call[c].op = "applyChangelist"

\* The delegations every targets object of a Repo holds.
DelegationsOf(repo) ==
    UNION {SeqToSet(repo.targets[p].delegations) : p \in DOMAIN repo.targets}

\* C12: no delegated role of a Repo has both paths and path hash prefixes,
\* and a replay that ends on a create or update that would produce such a
\* role leaves the Repo as the changes before it made it (as it was, when
\* the change stood alone).
C12_NoMixedPathRules ==
    \A c \in Clients :
        /\ \A d \in DelegationsOf(tufRepo[c]) :
              d.paths = {} \/ d.pathHashPrefixes = {}
        /\ (Replayed(c) /\ result[c] = ErrConflictingPaths) =>
              /\ call[c].cl0[call[c].applied + 1].action \in
                    {ActionCreate, ActionUpdate}
              /\ call[c].applied = 0 => tufRepo[c] = call[c].repo0
              /\ call[c].applied = 1 =>
                    tufRepo[c] =
                        changeTargetMeta(call[c].repo0, call[c].cl0[1]).repo

\* C12's case: an update that adds a path to a role with a prefix was
\* rejected.
C12_Witness ==
    \E c \in Clients :
        /\ Replayed(c)
        /\ result[c] = ErrConflictingPaths
        /\ call[c].cl0[1].action = ActionUpdate
        /\ \E d \in DelegationsOf(call[c].repo0) :
              d.name = call[c].cl0[1].scope /\ d.pathHashPrefixes # {}

\* C13: the key table of every targets object is exactly the set of key IDs
\* its delegated roles reference, so a key several roles share stays until
\* the last role that references it drops it.
C13_KeyTableIsReferenced ==
    \A c \in Clients :
        \A p \in DOMAIN tufRepo[c].targets :
            tufRepo[c].targets[p].dkeys =
                UNION {tufRepo[c].targets[p].delegations[i].keyIDs :
                          i \in 1..Len(tufRepo[c].targets[p].delegations)}

\* C13's case: two roles of targets shared a key, one of them was deleted or
\* gave the key up, and the key is still in the table for the other.
C13_Witness ==
    \E c \in Clients :
        LET before == call[c].repo0.targets[CanonicalTargetsRole]
            after == tufRepo[c].targets[CanonicalTargetsRole]
        IN  /\ Replayed(c)
            /\ result[c] = OK
            /\ Len(call[c].cl0) = 1
            /\ call[c].cl0[1].type = TypeTargetsDelegation
            /\ call[c].cl0[1].action \in {ActionDelete, ActionUpdate}
            /\ Len(before.delegations) = 2
            /\ \A i \in 1..2 : DelegKey1 \in before.delegations[i].keyIDs
            /\ Cardinality({i \in 1..Len(after.delegations) :
                   DelegKey1 \in after.delegations[i].keyIDs}) = 1
            /\ DelegKey1 \in after.dkeys

\* The role has an object in the Repo or its parent's object delegates to it.
InRepo(repo, role) ==
    \/ role \in DOMAIN repo.targets
    \/ \E d \in DelegationsOf(repo) : d.name = role

\* The last call replayed a single delegation change of the given action
\* whose content decodes.
LoneDelegationChange(c, action) ==
    /\ Replayed(c)
    /\ Len(call[c].cl0) = 1
    /\ call[c].cl0[1].type = TypeTargetsDelegation
    /\ call[c].cl0[1].action = action
    /\ call[c].cl0[1].content.kind = "delegation"

\* C14: a delegation create is rejected with ErrInvalidRole when the parent
\* is not in the Repo or the name is already delegated, an update with
\* ErrNoSuchRole when the role is not delegated; the Repo is as it was.
C14_DelegationPreconditions ==
    \A c \in Clients :
        LET ch == call[c].cl0[1]
            repo == call[c].repo0
        IN  /\ (/\ LoneDelegationChange(c, ActionCreate)
                /\ \/ ~InRepo(repo, ParentRole(ch.scope))
                   \/ \E d \in DelegationsOf(repo) : d.name = ch.scope)
                  => (result[c] = ErrInvalidRole /\ tufRepo[c] = repo)
            /\ (/\ LoneDelegationChange(c, ActionUpdate)
                /\ ~\E d \in DelegationsOf(repo) : d.name = ch.scope)
                  => (result[c] = ErrNoSuchRole /\ tufRepo[c] = repo)

\* C14's case: a create under a parent that is not in the Repo came back
\* with ErrInvalidRole.
C14_Witness ==
    \E c \in Clients :
        /\ LoneDelegationChange(c, ActionCreate)
        /\ ~InRepo(call[c].repo0, ParentRole(call[c].cl0[1].scope))
        /\ result[c] = ErrInvalidRole
        /\ tufRepo[c] = call[c].repo0

\* The last call replayed only target changes for t in role, ending with a
\* delete.
EndsWithDelete(c, role, t) ==
    /\ Replayed(c)
    /\ \A i \in 1..Len(call[c].cl0) :
          /\ call[c].cl0[i].type = TypeTargetsTarget
          /\ call[c].cl0[i].scope = role
          /\ call[c].cl0[i].path = t
    /\ call[c].cl0[Len(call[c].cl0)].action = ActionDelete

\* C15: after a replay that ends with delete(T) on a role of the Repo -
\* alone, a list after the one that created T, or after create(T) in the
\* same list - the call succeeded and T is absent, whether or not T was
\* there before.
C15_CreateDeleteLeavesAbsent ==
    \A c \in Clients : \A role \in {CanonicalTargetsRole, RoleA} :
        \A t \in TargetNames :
            (EndsWithDelete(c, role, t) /\ InRepo(call[c].repo0, role)) =>
                /\ result[c] = OK
                /\ call[c].applied = Len(call[c].cl0)
                /\ t \notin tufRepo[c].targets[role].targets

\* C15's case: create(T) and delete(T) in one list on a role that did not
\* hold T, and the replay succeeded.
C15_Witness ==
    \E c \in Clients :
        /\ EndsWithDelete(c, RoleA, "t1")
        /\ Len(call[c].cl0) = 2
        /\ call[c].cl0[1].action = ActionCreate
        /\ RoleA \in DOMAIN call[c].repo0.targets
        /\ "t1" \notin call[c].repo0.targets[RoleA].targets
        /\ result[c] = OK
        /\ "t1" \notin tufRepo[c].targets[RoleA].targets

\* ------------------------------------------ initializing and staging, alone
\* The inputs of Initialize and of the staging calls, valid and invalid.
MissingKey == "kmissing"
RootKeyChoices == {RootKey, MissingKey}
RemoteRoleChoices ==
    {<<>>, <<CanonicalTimestampRole>>, <<CanonicalSnapshotRole>>,
     <<CanonicalTimestampRole, CanonicalSnapshotRole>>,
     <<CanonicalRootRole>>, <<CanonicalTargetsRole>>,
     <<CanonicalSnapshotRole, CanonicalTargetsRole>>, <<<<"bogus">>>>}
CreateFailures == {0, 1, 2}
ServerRoleChoices == {ServerKeyRoles, {CanonicalTimestampRole}, {}}
StageRoleLists ==
    {<<>>, <<CanonicalTargetsRole>>, <<RoleA>>,
     <<CanonicalTargetsRole, RoleA>>, <<<<"TARGETS", "A">>>>,
     <<CanonicalRootRole>>, <<RoleA, CanonicalSnapshotRole>>,
     <<<<"target", "otherrole">>>>, <<<<"otherrole">>>>}
StageDelegationNames ==
    {RoleA, RoleAB, CanonicalRootRole, CanonicalTargetsRole, <<"otherrole">>}

NextStage ==
    \/ \E k \in RootKeyChoices, m \in RemoteRoleChoices, f \in CreateFailures,
          sr \in ServerRoleChoices, a \in Answers :
          Initialize(Owner, k, m, f, sr, a)
    \/ \E t \in StagedTargets, roles \in StageRoleLists :
          AddTarget(Owner, t, roles)
    \/ \E t \in StagedTargets, roles \in StageRoleLists :
          RemoveTarget(Owner, t, roles)
    \/ \E n \in StageDelegationNames : AddDelegation(Owner, n, 1, {DelegKey1})
    \/ \E n \in StageDelegationNames : RemoveDelegation(Owner, n)

SpecStage == Init /\ [][NextStage]_vars

\* ------------------------------------- properties of Initialize and staging
InitializeCall(c) == call[c].op = "Initialize"

\* Some role handed to the last Initialize is neither timestamp nor snapshot.
InvalidRemoteRole(c) ==
    \E i \in 1..Len(call[c].args.serverManagedRoles) :
        call[c].args.serverManagedRoles[i] \notin
            {CanonicalTimestampRole, CanonicalSnapshotRole}

\* The last Initialize created no key, added no certificate, sent no request
\* and wrote no metadata.
NothingDone(c) ==
    /\ call[c].created = {}
    /\ call[c].certs = {}
    /\ ~call[c].requested
    /\ call[c].keyRequests = <<>>
    /\ call[c].written = {}

\* C16 (as stated): Initialize returns ErrInvalidRemoteRole whenever a
\* server-managed role is outside {timestamp, snapshot}, and then has
\* created no key, added no certificate, sent no request and written no
\* metadata.
C16_Original ==
    [][\A c \in Clients :
          (InitializeCall(c)' /\ InvalidRemoteRole(c)') =>
              /\ result'[c] = ErrInvalidRemoteRole
              /\ NothingDone(c)'
              /\ UNCHANGED <<minted, keys, fileStore, remote>>]_vars

\* C16 (amended): the same for an Initialize whose root key the
\* CryptoService can load; the root key is loaded before the roles are
\* looked at, and a failure to load it is what Initialize returns.
C16_InvalidRemoteRoleAfterRootKey ==
    [][\A c \in Clients :
          (InitializeCall(c)' /\ InvalidRemoteRole(c)') =>
              /\ call'[c].args.rootKeyID \in keys[c] =>
                    result'[c] = ErrInvalidRemoteRole
              /\ call'[c].args.rootKeyID \notin keys[c] =>
                    result'[c] = ErrKeyNotFound
              /\ NothingDone(c)'
              /\ UNCHANGED <<minted, keys, fileStore, remote>>]_vars

\* C16's case: Initialize with a loadable root key and targets among the
\* server-managed roles came back with ErrInvalidRemoteRole.
C16_Witness ==
    \E c \in Clients :
        /\ InitializeCall(c)
        /\ call[c].args.rootKeyID = RootKey
        /\ CanonicalTargetsRole \in SeqToSet(call[c].args.serverManagedRoles)
        /\ result[c] = ErrInvalidRemoteRole

\* The roles whose key the last Initialize had to create locally.
LocalRoles(c) ==
    IF CanonicalSnapshotRole \in SeqToSet(call[c].args.serverManagedRoles)
    THEN {CanonicalTargetsRole} ELSE {CanonicalTargetsRole, CanonicalSnapshotRole}

CreatedRoles(c) == {p[1] : p \in call[c].created}

\* C17: in Initialize every locally managed key is created before the first
\* request for a remote key; when a local creation fails that error is
\* returned and no request was sent; when the server has no key for a role
\* ErrMetaNotFound is returned and every local key exists by then.
C17_LocalKeysFirst ==
    \A c \in Clients :
        InitializeCall(c) =>
            /\ \A i \in 1..Len(call[c].keyRequests) :
                  call[c].keyRequests[i].created = LocalRoles(c)
            /\ call[c].requested => CreatedRoles(c) = LocalRoles(c)
            /\ CreatedRoles(c) \notin {{}, LocalRoles(c)} =>
                  result[c] = ErrCannotCreateKey
            /\ result[c] = ErrCannotCreateKey =>
                  ~call[c].requested /\ call[c].keyRequests = <<>>
            /\ (\E i \in 1..Len(call[c].keyRequests) :
                   call[c].keyRequests[i].answer = "notfound") =>
                  /\ result[c] = ErrMetaNotFound
                  /\ CreatedRoles(c) = LocalRoles(c)
                  /\ {p[2] : p \in call[c].created} \subseteq keys[c]

\* C17's case: the server had no timestamp key, Initialize came back with
\* ErrMetaNotFound and the targets and snapshot keys are in the key store.
C17_Witness ==
    \E c \in Clients :
        /\ InitializeCall(c)
        /\ result[c] = ErrMetaNotFound
        /\ call[c].keyRequests # <<>>
        /\ CreatedRoles(c) = {CanonicalTargetsRole, CanonicalSnapshotRole}
        /\ {p[2] : p \in call[c].created} \subseteq keys[c]

TargetCall(c) == call[c].op \in {"AddTarget", "RemoveTarget"}

\* The roles the last AddTarget or RemoveTarget was given, in lower case
\* (targets when none).
ListedRoles(c) ==
    IF call[c].args.roles = <<>> THEN <<CanonicalTargetsRole>>
    ELSE [i \in 1..Len(call[c].args.roles) |-> ToLower(call[c].args.roles[i])]

\* The changelist is what it was plus one change per listed role: create
\* with content for AddTarget, delete with none for RemoveTarget.
OnePerRole(c) ==
    /\ Len(changelist[c]) = Len(call[c].cl0) + Len(ListedRoles(c))
    /\ SubSeq(changelist[c], 1, Len(call[c].cl0)) = call[c].cl0
    /\ \A i \in 1..Len(ListedRoles(c)) :
          LET ch == changelist[c][Len(call[c].cl0) + i]
          IN  /\ ch.scope = ListedRoles(c)[i]
              /\ ch.type = TypeTargetsTarget
              /\ ch.path = call[c].args.target
              /\ call[c].op = "AddTarget" =>
                    ch.action = ActionCreate /\ ch.content # NoContent
              /\ call[c].op = "RemoveTarget" =>
                    ch.action = ActionDelete /\ ch.content = NoContent

StagingStep(c) ==
    /\ call'[c].op \in {"AddTarget", "RemoveTarget", "AddDelegation",
                        "RemoveDelegation"}
    /\ call'[c] # call[c]

\* C20: a staging call sends no request to the server and asks for no
\* private key, in any state; the server, the key store and the local
\* metadata are as before.
C20_StagingIsOffline ==
    [][\A c \in Clients :
          StagingStep(c) =>
              /\ ~call'[c].requested
              /\ call'[c].keyRequests = <<>>
              /\ call'[c].asked = {}
              /\ call'[c].created = {}
              /\ UNCHANGED <<remote, keys, minted, fileStore, tufRepo>>]_vars

\* C20's case: a target was staged by a client whose repository is
\* published, on a changelist that was not empty.
C20_Witness ==
    \E c \in Clients :
        /\ call[c].op = "AddTarget"
        /\ result[c] = OK
        /\ call[c].cl0 # <<>>
        /\ CanonicalRootRole \in DOMAIN remote
        /\ ~call[c].requested

\* A role name that, whatever its case, is neither targets nor a delegation.
NotATargetsRole(role) ==
    /\ ToLower(role) # CanonicalTargetsRole
    /\ ~(Len(role) >= 2 /\ ToLower(role)[1] = "targets")

\* C21: when some role given to AddTarget or RemoveTarget is neither targets
\* nor a delegation name, the call returns ErrInvalidRole and the changelist
\* gains no change, not even for the valid roles listed before it.
C21_InvalidRoleAddsNothing ==
    \A c \in Clients :
        (/\ TargetCall(c)
         /\ \E i \in 1..Len(call[c].args.roles) :
               NotATargetsRole(call[c].args.roles[i]))
            => (result[c] = ErrInvalidRole /\ changelist[c] = call[c].cl0)

\* C21's case: a valid role followed by snapshot, on a changelist that
\* already held a change.
C21_Witness ==
    \E c \in Clients :
        /\ TargetCall(c)
        /\ call[c].args.roles = <<RoleA, CanonicalSnapshotRole>>
        /\ call[c].cl0 # <<>>
        /\ result[c] = ErrInvalidRole
        /\ changelist[c] = call[c].cl0

\* The last call was AddDelegation or RemoveDelegation.
DelegationCall(c) == call[c].op \in {"AddDelegation", "RemoveDelegation"}

\* The name given to the last delegation call is not a delegation name.
NotADelegationName(c) ==
    ~(Len(call[c].args.name) >= 2 /\ call[c].args.name[1] = "targets")

\* The last staging call was given an invalid role name.
InvalidNameGiven(c) ==
    \/ /\ TargetCall(c)
       /\ \E i \in 1..Len(call[c].args.roles) :
             NotATargetsRole(call[c].args.roles[i])
    \/ DelegationCall(c) /\ NotADelegationName(c)

\* C22 (as stated): a staging call given an invalid role name returns its
\* error without having opened the changelist.
C22_Original ==
    \A c \in Clients :
        InvalidNameGiven(c) => (result[c] # OK /\ ~call[c].opened)

\* C22 (amended): AddDelegation and RemoveDelegation reject an invalid name
\* before they open the changelist; AddTarget and RemoveTarget open the
\* changelist first and reject the role afterwards.  No change is added.
C22_RejectedBeforeOrAfterOpening ==
    \A c \in Clients :
        InvalidNameGiven(c) =>
            /\ result[c] = ErrInvalidRole
            /\ changelist[c] = call[c].cl0
            /\ call[c].opened <=> TargetCall(c)

\* C22's case: RemoveDelegation(root) came back with the changelist never
\* opened.
C22_Witness ==
    \E c \in Clients :
        /\ call[c].op = "RemoveDelegation"
        /\ call[c].args.name = CanonicalRootRole
        /\ result[c] = ErrInvalidRole
        /\ ~call[c].opened

\* C23 (as stated): AddTarget with a delegation name written in upper case
\* returns ErrInvalidRole and adds no change.
C23_Original ==
    \A c \in Clients :
        (/\ call[c].op = "AddTarget"
         /\ \E i \in 1..Len(call[c].args.roles) :
               /\ call[c].args.roles[i] # ToLower(call[c].args.roles[i])
               /\ IsDelegation(ToLower(call[c].args.roles[i])))
            => (result[c] = ErrInvalidRole /\ changelist[c] = call[c].cl0)

\* C24: AddDelegation and RemoveDelegation succeed and stage their one
\* change exactly when the name is a delegation name, whether or not the
\* delegation or its parent exists; for any other name they return
\* ErrInvalidRole and the changelist is as it was.
C24_DelegationNameDecides ==
    \A c \in Clients :
        DelegationCall(c) =>
            IF NotADelegationName(c)
            THEN result[c] = ErrInvalidRole /\ changelist[c] = call[c].cl0
            ELSE /\ result[c] = OK
                 /\ Len(changelist[c]) = Len(call[c].cl0) + 1
                 /\ SubSeq(changelist[c], 1, Len(call[c].cl0)) = call[c].cl0
                 /\ LET ch == changelist[c][Len(changelist[c])]
                    IN  /\ ch.scope = call[c].args.name
                        /\ ch.type = TypeTargetsDelegation
                        /\ ch.action = IF call[c].op = "AddDelegation"
                                       THEN ActionCreate ELSE ActionDelete

\* C24's case: targets/a/b was staged for a repository that has no
\* targets/a, and no change creates it.
C24_Witness ==
    \E c \in Clients :
        /\ call[c].op = "AddDelegation"
        /\ call[c].args.name = RoleAB
        /\ result[c] = OK
        /\ tufRepo[c].root # <<>>
        /\ ~InRepo(tufRepo[c], RoleA)
        /\ \A i \in 1..Len(changelist[c]) : changelist[c][i].scope # RoleA

\* ------------------------------------------------------ key rotation, alone
\* RotateKey with every role and flag, against a server that answers or
\* not, on a repository that is initialized or not.
NextRotate ==
    \/ \E m \in ManagedChoices :
          Initialize(Owner, RootKey, m, 0, ServerKeyRoles, "ok")
    \/ \E role \in BaseRoles, serverManagesKey \in BOOLEAN, up \in BOOLEAN :
          RotateKey(Owner, role, serverManagesKey, up)
    \/ \E t \in StagedTargets : AddTarget(Owner, t, <<>>)
    \/ \E k \in RemovableKeys : RemoveKey(Owner, k)

SpecRotate == Init /\ [][NextRotate]_vars

RotateCall(c) == call[c].op = "RotateKey"

\* The role and flag of the last RotateKey are among those it rejects.
RotationRejected(c) ==
    \/ call[c].args.role \in {CanonicalRootRole, CanonicalTimestampRole}
    \/ call[c].args.role = CanonicalTargetsRole /\ call[c].args.serverManagesKey

\* C25: RotateKey returns an error for root and timestamp with either flag
\* and ErrInvalidRemoteRole for (targets, true); it then has created no
\* key, sent no request and staged no change.
C25_RotationRejected ==
    [][\A c \in Clients :
          (RotateCall(c)' /\ RotationRejected(c)') =>
              /\ result'[c] # OK
              /\ (call'[c].args.role = CanonicalTargetsRole) =>
                    result'[c] = ErrInvalidRemoteRole
              /\ call'[c].created = {}
              /\ ~call'[c].requested
              /\ call'[c].keyRequests = <<>>
              /\ UNCHANGED <<minted, keys, changelist, remote>>]_vars

\* C25's case: RotateKey(targets, true) on an initialized repository with a
\* change staged.
C25_Witness ==
    \E c \in Clients :
        /\ RotateCall(c)
        /\ call[c].args.role = CanonicalTargetsRole
        /\ call[c].args.serverManagesKey
        /\ result[c] = ErrInvalidRemoteRole
        /\ changelist[c] # <<>>
        /\ CanonicalRootRole \in DOMAIN fileStore[c]

\* ------------------------------------------------ properties of a rotation
\* The positions of the root-role changes for role in a changelist.
Rotations(cl, role) ==
    {i \in 1..Len(cl) :
        /\ cl[i].scope = ScopeRoot
        /\ cl[i].type = TypeRootRole
        /\ cl[i].content.kind = "rootrole"
        /\ cl[i].content.roleName = role}

\* The keys the last root-role change for role in a changelist names.
RotatedKeys(cl, role) ==
    cl[CHOOSE i \in Rotations(cl, role) :
          \A j \in Rotations(cl, role) : j <= i].content.keys

\* An accepted RotateKey staged exactly one change after the ones that were
\* there: a root-role change that names the role and one key, the key it
\* created or the key the server holds for the role.
RotationStaged(c) ==
    (RotateCall(c) /\ result[c] = OK) =>
        /\ Len(changelist[c]) = Len(call[c].cl0) + 1
        /\ SubSeq(changelist[c], 1, Len(call[c].cl0)) = call[c].cl0
        /\ LET ch == changelist[c][Len(changelist[c])]
           IN  /\ ch.scope = ScopeRoot
               /\ ch.type = TypeRootRole
               /\ ch.action = ActionCreate
               /\ ch.content.kind = "rootrole"
               /\ ch.content.roleName = call[c].args.role
               /\ Cardinality(ch.content.keys) = 1
               /\ IF call[c].args.serverManagesKey
                  THEN /\ call[c].requested
                       /\ ch.content.keys \subseteq ServerKeys
                       /\ call[c].created = {}
                  ELSE /\ ~call[c].requested
                       /\ call[c].created =
                             {<<call[c].args.role, k>> : k \in ch.content.keys}
                       /\ ch.content.keys \subseteq keys[c]

\* After an accepted Publish of a changelist that rotates role, the Root of
\* the publisher and the Root a client pulls list exactly the rotated key.
RotationPublished(c, role) ==
    (Accepted(c) /\ Rotations(call[c].cl0, role) # {}) =>
        /\ Cardinality(RotatedKeys(call[c].cl0, role)) = 1
        /\ tufRepo[c].root[1].roles[role] = RotatedKeys(call[c].cl0, role)
        /\ PulledRepo(remote).root[1].roles[role] =
              RotatedKeys(call[c].cl0, role)

\* The Publish that directly follows an accepted RotateKey.
FirstPublish(c) == PublishCall(c) /\ call[c].prev = <<"RotateKey", OK>>

\* The rotated key is none of the keys the role had when Publish began.
RotatedKeyIsNew(c, role) ==
    (Accepted(c) /\ Rotations(call[c].cl0, role) # {}) =>
        RotatedKeys(call[c].cl0, role) \cap Loaded(c).root[1].roles[role] = {}

\* The keys any Root the client can see lists for any role: the Root in
\* memory, the cached one and the one on the server.
ListedKeys(c) ==
    LET of(root) == UNION {root.roles[r] : r \in DOMAIN root.roles}
    IN  UNION ({of(tufRepo[c].root[i]) : i \in 1..Len(tufRepo[c].root)}
               \cup {of(fileStore[c][r]) :
                        r \in DOMAIN fileStore[c] \cap {CanonicalRootRole}}
               \cup {of(remote[r]) :
                        r \in DOMAIN remote \cap {CanonicalRootRole}})

\* A key that an accepted RotateKey created locally is listed by no Root.
CreatedKeyIsUnlisted(c) ==
    (RotateCall(c) /\ result[c] = OK /\ ~call[c].args.serverManagesKey) =>
        {kc[2] : kc \in call[c].created} \cap ListedKeys(c) = {}

\* C26 (as stated): an accepted RotateKey stages exactly one root-role change
\* with one new key, and after the next successful Publish the Root lists
\* exactly that key for the role, different from every key the role had,
\* for the publisher and for a client that pulls.
C26_Original ==
    \A c \in Clients :
        /\ RotationStaged(c)
        /\ \A role \in BaseRoles :
              /\ RotationPublished(c, role)
              /\ FirstPublish(c) => RotatedKeyIsNew(c, role)

\* C26 (amended): an accepted RotateKey stages exactly one root-role change
\* with one key; a key it created locally is listed by no Root, and after an
\* accepted Publish the Root lists exactly the rotated key for the role, for
\* the publisher and for a client that pulls. In the Publish that directly
\* follows the RotateKey the key is none of the keys the role had, unless it
\* is the key of a server that already managed the role.
C26_RotationReplacesKeys ==
    \A c \in Clients :
        /\ RotationStaged(c)
        /\ CreatedKeyIsUnlisted(c)
        /\ \A role \in BaseRoles :
              /\ RotationPublished(c, role)
              /\ FirstPublish(c) =>
                    \/ RotatedKeyIsNew(c, role)
                    \/ /\ RotatedKeys(call[c].cl0, role) \subseteq ServerKeys
                       /\ Loaded(c).root[1].roles[role] =
                             RotatedKeys(call[c].cl0, role)

\* C26's case: a rotation of the targets key to a locally created key was
\* published, on a repository the server already had.
C26_Witness ==
    \E c \in Clients :
        /\ Accepted(c)
        /\ FirstPublish(c)
        /\ call[c].fetch = "remote"
        /\ Rotations(call[c].cl0, CanonicalTargetsRole) # {}
        /\ PulledRepo(remote).root[1].roles[CanonicalTargetsRole] =
              RotatedKeys(call[c].cl0, CanonicalTargetsRole)
        /\ RotatedKeys(call[c].cl0, CanonicalTargetsRole) \cap
              PulledRepo(call[c].remote0).root[1].roles[CanonicalTargetsRole]
                 = {}

\* ---------------------------------------------------- the walk of the roles
ErrNoTrustData == "No trust data"

\* strings.HasPrefix on the target names and the paths of the model: the
\* empty path is a prefix of every name, a name is a prefix of itself, and
\* "t" is a prefix of "t1" and of "t2".
HasPrefix(name, path) ==
    \/ path = ""
    \/ path = name
    \/ path = "t" /\ name \in {"t1", "t2"}

\* The names of the delegations of a role, in the order its object lists
\* them; none when the Repo has no object for the role.
ChildRoles(repo, role) ==
    IF role \in DOMAIN repo.targets
    THEN [i \in 1..Len(repo.targets[role].delegations) |->
             repo.targets[role].delegations[i].name]
    ELSE <<>>

\* The roles visited from a role, in pre-order; a role in named is visited at
\* its own position in the list and not below its ancestor.
RECURSIVE WalkAll(_, _, _)
WalkAll(repo, roles, named) ==
    IF roles = <<>> THEN <<>>
    ELSE <<roles[1]>>
         \o WalkAll(repo, SelectSeq(ChildRoles(repo, roles[1]),
                                     LAMBDA r : r \notin named), named)
         \o WalkAll(repo, Tail(roles), named)

\* The order of the visit: the given roles, then targets when the list does
\* not name it, each followed by its delegations.
VisitOrder(repo, roles) ==
    LET given == IF CanonicalTargetsRole \in SeqToSet(roles) THEN roles
                 ELSE roles \o <<CanonicalTargetsRole>>
    IN  WalkAll(repo, given, SeqToSet(given))

\* The role holds the target, and the name satisfies the path scope of every
\* delegation on the chain from targets down to the role.
HoldsInScope(repo, role, name) ==
    /\ role \in DOMAIN repo.targets
    /\ name \in repo.targets[role].targets
    /\ \A k \in 2..Len(role) :
          LET parent == SubSeq(role, 1, k - 1)
              i == IF parent \in DOMAIN repo.targets
                   THEN DelegationIndex(repo.targets[parent].delegations,
                                        SubSeq(role, 1, k))
                   ELSE 0
          IN  /\ i # 0
              /\ \E path \in repo.targets[parent].delegations[i].paths :
                    HasPrefix(name, path)

\* The first role of the visit that holds the name in scope, if any.
Winner(repo, roles, name) ==
    LET order == VisitOrder(repo, roles)
        hits == {i \in 1..Len(order) : HoldsInScope(repo, order[i], name)}
    IN  IF hits = {} THEN <<>>
        ELSE <<[name |-> name,
                role |-> order[CHOOSE i \in hits : \A j \in hits : i <= j]]>>

\* tufclient.TargetMeta(name): the target of the first role that holds it.
TargetMeta(repo, name) == Winner(repo, <<>>, name)

\* GetTargetByName: bootstrap, pull, and look the name up.
GetTargetByName(c, name, answer, pullAnswer) ==
    LET boot == bootstrapClient(c, answer)
        pulled == Update(c, boot.repo, pullAnswer)
        begun == [NoCall EXCEPT !.op = "GetTargetByName", !.fetch = boot.fetch,
                                !.args = [name |-> name],
                                !.cl0 = changelist[c], !.remote0 = remote,
                                !.requested = TRUE]
        meta == TargetMeta(pulled.repo, name)
    IN  /\ pc[c] = "idle"
        /\ IF boot.err # OK
           THEN /\ result' = [result EXCEPT ![c] = boot.err]
                /\ call' = [call EXCEPT ![c] = begun]
                /\ tufRepo' = [tufRepo EXCEPT ![c] = boot.repo]
                /\ UNCHANGED fileStore
           ELSE /\ tufRepo' = [tufRepo EXCEPT ![c] = pulled.repo]
                /\ fileStore' = [fileStore EXCEPT ![c] = pulled.store]
                /\ IF pulled.err # OK
                   THEN /\ result' = [result EXCEPT ![c] = pulled.err]
                        /\ call' = [call EXCEPT ![c] = begun]
                   ELSE IF meta = <<>>
                   THEN /\ result' = [result EXCEPT ![c] = ErrNoTrustData]
                        /\ call' = [call EXCEPT ![c] = begun]
                   ELSE /\ result' = [result EXCEPT ![c] = OK]
                        /\ call' = [call EXCEPT ![c] =
                              [begun EXCEPT !.listed = {name}]]
        /\ UNCHANGED <<remote, minted, now, keys, changelist, pc, updateRoot,
                       updatedFiles>>

\* ------------------------------------------- a server with delegated roles
\* The repository's tests put delegated roles on a server: they replay the
\* changelist on the Repo in memory and clear it, set the paths of a
\* delegation on the Repo, and serve the Repo signed, role by role.

\* applyChangelist(repo.tufRepo, cl) followed by cl.Clear("").
applyAndClear(c) ==
    LET res == applyChangelist(tufRepo[c], changelist[c])
    IN  /\ pc[c] = "idle"
        /\ tufRepo[c].root # <<>>
        /\ changelist[c] # <<>>
        /\ tufRepo' = [tufRepo EXCEPT ![c] = res.repo]
        /\ changelist' = [changelist EXCEPT ![c] = <<>>]
        /\ result' = [result EXCEPT ![c] = res.err]
        /\ call' = [call EXCEPT ![c] =
               [NoCall EXCEPT !.op = "applyChangelist", !.cl0 = changelist[c],
                              !.repo0 = tufRepo[c], !.applied = res.applied]]
        /\ UNCHANGED <<remote, minted, now, keys, fileStore, pc, updateRoot,
                       updatedFiles>>

\* tuf.Repo.UpdateDelegationPaths(name, add, remove, false).
UpdateDelegationPaths(c, name, add, remove) ==
    LET res == changeTargetsDelegation(tufRepo[c],
                  NewTufChange(ActionUpdate, name, TypeTargetsDelegation, "",
                      TufDelegation(0, {}, {}, add, remove, {}, {}, FALSE)))
    IN  /\ pc[c] = "idle"
        /\ tufRepo[c].root # <<>>
        /\ tufRepo' = [tufRepo EXCEPT ![c] = res.repo]
        /\ result' = [result EXCEPT ![c] = res.err]
        /\ call' = [call EXCEPT ![c] =
               [NoCall EXCEPT !.op = "UpdateDelegationPaths",
                              !.repo0 = tufRepo[c]]]
        /\ UNCHANGED <<remote, minted, now, keys, fileStore, changelist, pc,
                       updateRoot, updatedFiles>>

\* fakeServerData: the server serves the root file of the local store and
\* the targets roles and the snapshot of the Repo in memory, each signed
\* with the keys of the repository's CryptoService.
fakeServerData(c) ==
    LET repo == tufRepo[c]
        roles == DOMAIN repo.targets
        signedTargets ==
            [r \in roles |-> SignTargets(repo, r, keys[c]).repo.targets[r]]
        signedRepo == [repo EXCEPT !.targets = signedTargets]
        snap == SignSnapshot(signedRepo, keys[c])
        served ==
            [r \in {CanonicalRootRole, CanonicalSnapshotRole} \cup roles |->
                CASE r = CanonicalRootRole -> fileStore[c][CanonicalRootRole]
                  [] r = CanonicalSnapshotRole -> snap.blob[1]
                  [] OTHER -> ToBlob(signedTargets[r])]
    IN  /\ pc[c] = "idle"
        /\ changelist[c] = <<>>
        /\ CanonicalRootRole \in DOMAIN fileStore[c]
        /\ fileStore[c][CanonicalRootRole].type # "corrupt"
        /\ CanonicalTargetsRole \in roles
        /\ repo.snapshot # <<>>
        /\ \A r \in roles :
              /\ SignTargets(repo, r, keys[c]).err = OK
              /\ repo.targets[r].version < MaxVersion
        /\ repo.snapshot[1].version < MaxVersion
        /\ snap.err = OK
        /\ remote' = served
        /\ tufRepo' = [tufRepo EXCEPT ![c] = snap.repo]
        /\ result' = [result EXCEPT ![c] = OK]
        /\ call' = [call EXCEPT ![c] =
               [NoCall EXCEPT !.op = "fakeServerData", !.remote0 = remote]]
        /\ UNCHANGED <<minted, now, keys, fileStore, changelist, pc,
                       updateRoot, updatedFiles>>

ListedNames == {"t1", "t2"}
ListedTargets ==
    {<<"t1", <<>>>>, <<"t1", <<RoleA>>>>, <<"t2", <<RoleA>>>>,
     <<"t1", <<RoleAB>>>>}
ListedDelegations == {RoleA, RoleAB}
ListedPaths == {{""}, {"t1"}}

\* The Repo is built and served once, as in the tests: changes are staged
\* and replayed before the server has anything, and the paths of a
\* delegation are set between two sessions.
Unserved(c) == pc[c] = "idle" /\ remote = <<>>

NextList ==
    \/ Initialize(Owner, RootKey, <<>>, 0, ServerKeyRoles, "ok")
    \/ \E n \in ListedDelegations :
          Unserved(Owner) /\ AddDelegation(Owner, n, 1, {DelegKey1})
    \/ \E tr \in ListedTargets :
          Unserved(Owner) /\ AddTarget(Owner, tr[1], tr[2])
    \/ Unserved(Owner) /\ applyAndClear(Owner)
    \/ \E n \in ListedDelegations, add \in ListedPaths :
          /\ Unserved(Owner) /\ Quiescent(Owner)
          /\ UpdateDelegationPaths(Owner, n, add, {})
    \/ Unserved(Owner) /\ fakeServerData(Owner)
    \/ \E a \in Answers, pa \in Answers : ListTargets(Owner, a, pa)
    \/ \E t \in ListedNames, a \in Answers, pa \in Answers :
          GetTargetByName(Owner, t, a, pa)

SpecList == Init /\ [][NextList]_vars

\* ------------------------------------------------- properties of a listing
\* The last call listed the targets, or looked a target up, and returned.
ListCall(c) == call[c].op = "ListTargets" /\ result[c] = OK
LookupCall(c) == call[c].op = "GetTargetByName"

\* The entries of the listing with the role each was read from: ListTargets
\* reads Targets["targets"] (line 423).
ListedFrom(c) ==
    {[name |-> n, role |-> CanonicalTargetsRole] : n \in call[c].listed}

\* The entries the walk of a role list yields on a Repo.
Winners(repo, roles) ==
    {Winner(repo, roles, n)[1] :
        n \in {x \in TargetNames : Winner(repo, roles, x) # <<>>}}

\* The role lists a caller may give.
GivenRoleLists == {<<RoleA>>, <<RoleAB>>, <<RoleA, CanonicalTargetsRole>>}

\* C27 (as stated): with no roles given, the listing holds, for every name
\* some visited role holds, the entry of the first role of the pre-order
\* walk from targets that holds it, and GetTargetByName returns that entry,
\* or the no-trust-data error when no visited role holds the name.
C27_Original ==
    \A c \in Clients :
        /\ ListCall(c) => ListedFrom(c) = Winners(tufRepo[c], <<>>)
        /\ (LookupCall(c) /\ result[c] \in {OK, ErrNoTrustData}) =>
              (result[c] = OK <=>
                  Winner(tufRepo[c], <<>>, call[c].args.name) # <<>>)

\* C28 (as stated): with a role list given, the listing holds the entry of
\* the leftmost role of the walk of that list that holds the name.
C28_Original ==
    \A c \in Clients : \A roles \in GivenRoleLists :
        ListCall(c) => ListedFrom(c) = Winners(tufRepo[c], roles)

\* C29: a listing or a lookup returns a name only if some role holds it and
\* the name satisfies the path scope of every delegation from targets down
\* to that role; a target out of the scope of its role is not returned for
\* that role.
C29_OnlyTargetsInScope ==
    \A c \in Clients :
        (ListCall(c) \/ (LookupCall(c) /\ result[c] = OK)) =>
            \A n \in call[c].listed :
                \E role \in DOMAIN tufRepo[c].targets :
                    HoldsInScope(tufRepo[c], role, n)

\* C29's case: the server holds a delegated role with a path scope and a
\* target outside it that no role holds in scope, and a listing returned
\* without it.
C29_Witness ==
    \E c \in Clients, role \in ListedDelegations, n \in TargetNames :
        /\ ListCall(c)
        /\ role \in DOMAIN tufRepo[c].targets
        /\ n \in tufRepo[c].targets[role].targets
        /\ \E d \in DelegationsOf(tufRepo[c]) : d.name = role /\ d.paths # {}
        /\ Winner(tufRepo[c], <<>>, n) = <<>>
        /\ n \notin call[c].listed

\* --------------------------------- Publish on a repository never initialized
\* Publish returned, on a directory with no metadata and a server with no
\* root for the repository.
NeverInitialized(c) ==
    /\ Returned(c)
    /\ call[c].fetch = "notfound"
    /\ call[c].remote0 = <<>>
    /\ fileStore[c] = <<>>

\* C30 (as stated): Publish on a repository that was never initialized
\* returns ErrRepoNotInitialized, creates no local metadata and pushes
\* nothing.
C30_Original ==
    \A c \in Clients :
        NeverInitialized(c) =>
            /\ result[c] = ErrRepoNotInitialized
            /\ ~call[c].sent
            /\ remote = <<>>

\* --------------------------------------------------- corrupt local metadata
\* fileStore.SetMeta(role, []byte("this isn't JSON")): the file of a role in
\* the local MetadataStore is overwritten with bytes that are no JSON.
SetMetaCorrupt(c, role) ==
    /\ pc[c] = "idle"
    /\ CanonicalRootRole \in DOMAIN fileStore[c]
    /\ fileStore' = [fileStore EXCEPT ![c] =
          [r \in DOMAIN fileStore[c] \cup {role} |->
              IF r = role THEN CorruptBlob ELSE fileStore[c][r]]]
    /\ call' = [call EXCEPT ![c] = [NoCall EXCEPT !.op = "SetMeta",
                                                  !.args = [role |-> role]]]
    /\ result' = [result EXCEPT ![c] = OK]
    /\ UNCHANGED <<remote, minted, now, keys, changelist, tufRepo, pc,
                   updateRoot, updatedFiles>>

CorruptibleRoles ==
    {CanonicalRootRole, CanonicalTargetsRole, CanonicalSnapshotRole}

NextCorrupt ==
    \/ \E m \in ManagedChoices :
          Initialize(Owner, RootKey, m, 0, ServerKeyRoles, "ok")
    \/ \E t \in StagedTargets : AddTarget(Owner, t, <<>>)
    \/ \E role \in CorruptibleRoles : SetMetaCorrupt(Owner, role)
    \/ \E a \in Answers, pa \in Answers : PublishBootstrap(Owner, a, pa)
    \/ PublishApply(Owner)
    \/ PublishSign(Owner)
    \/ \E a \in Answers : PublishPush(Owner, a)
    \/ \E cleared \in BOOLEAN : PublishClear(Owner, cleared)

SpecCorrupt == Init /\ [][NextCorrupt]_vars

\* Some file of the local MetadataStore is no JSON.
CorruptLocally(c) ==
    \E r \in DOMAIN fileStore[c] : fileStore[c][r] = CorruptBlob

\* C31 (as stated): Publish fails with the JSON syntax error only on a
\* repository the server does not hold.
C31_Original ==
    \A c \in Clients :
        (Returned(c) /\ result[c] = ErrSyntax) =>
            CanonicalRootRole \notin DOMAIN call[c].remote0

\* C31 (amended): Publish fails with the JSON syntax error only when the
\* remote root was not fetched: the server has no root and a local file is
\* corrupt, or the server did not answer and the cached root is corrupt.
\* When the remote root was fetched, the Repo and the local store are the
\* server's, whatever the local files held.
C31_CorruptOnlyWithoutRemote ==
    \A c \in Clients :
        /\ (Returned(c) /\ result[c] = ErrSyntax) =>
              /\ call[c].fetch \in {"notfound", "cache"}
              /\ CorruptLocally(c)
              /\ call[c].fetch = "cache" =>
                    fileStore[c][CanonicalRootRole] = CorruptBlob
        /\ (Returned(c) /\ call[c].fetch = "notfound" /\ CorruptLocally(c)
              /\ CanonicalTargetsRole \in DOMAIN fileStore[c]) =>
              result[c] = ErrSyntax
        /\ (PublishCall(c) /\ call[c].fetch = "remote" /\ pc[c] = "apply") =>
              /\ tufRepo[c] = PulledRepo(call[c].remote0)
              /\ fileStore[c] = call[c].remote0
              /\ ~CorruptLocally(c)

\* C31's case: a Publish that began right after a local file was corrupted
\* fetched the remote root and was accepted by the server.
C31_Witness ==
    \E c \in Clients :
        /\ Accepted(c)
        /\ call[c].prev = <<"SetMeta", OK>>
        /\ call[c].fetch = "remote"

\* ------------------------------------------- publishing to a delegated role
\* The client holds none of the keys the server's Root authorizes for the
\* targets role.
HoldsNoTargetsKey(c, store) ==
    keys[c] \cap AuthorizedKeys(PulledRepo(store), CanonicalTargetsRole) = {}

\* C32 (as stated): a Publish of changes scoped only to the existing
\* delegated role targets/a, by a client that holds a key of targets/a and no
\* targets key, succeeds; the delegated role is signed and the targets role
\* is not.
C32_Original ==
    \A c \in Clients :
        (Returned(c) /\ AddsTargetsTo(call[c].cl0, RoleA)
            /\ HoldsDelegationKey(c, call[c].remote0, RoleA)
            /\ HoldsNoTargetsKey(c, call[c].remote0)) =>
            /\ result[c] = OK
            /\ RoleA \in DOMAIN updatedFiles[c]
            /\ CanonicalTargetsRole \notin DOMAIN updatedFiles[c]

\* The list is one change that adds a target to the role.
LoneTargetFor(cl, role) == Len(cl) = 1 /\ AddsTargetsTo(cl, role)

\* C33 (as stated): a target change scoped to a delegated role the Repo does
\* not have is applied to the nearest existing ancestor, here targets, and
\* the replay goes on without an error.
C33_Original ==
    \A c \in Clients :
        (PublishCall(c) /\ call[c].at = "apply"
            /\ LoneTargetFor(call[c].cl0, RoleA)
            /\ ~RoleExtant(Loaded(c), RoleA)) =>
            /\ pc[c] = "sign"
            /\ call[c].cl0[1].path \in
                  tufRepo[c].targets[CanonicalTargetsRole].targets

\* ------------------------------------------ a key taken from a delegation
\* cl.Add of an update of a delegation that swaps keys: the change the
\* repository's tests stage by hand to take a key from a delegated role.
StageDelegationUpdate(c, name, addKeys, removeKeys) ==
    /\ Stage(c, OpenedCall("cl.Add", [name |-> name]), OK,
             <<NewTufChange(ActionUpdate, name, TypeTargetsDelegation, "",
                  TufDelegation(1, addKeys, removeKeys, {}, {}, {}, {},
                                FALSE))>>)
    /\ UNCHANGED <<remote, minted, now, keys, fileStore, tufRepo, pc>>

NextRevoke ==
    \/ Initialize(Owner, RootKey, <<CanonicalSnapshotRole>>, 0, ServerKeyRoles,
                  "ok")
    \/ AddDelegation(Owner, RoleA, 1, {DelegKey1})
    \/ StageDelegationUpdate(Owner, RoleA, {DelegKey2}, {DelegKey1})
    \/ Quiescent(Owner) /\ RemoveDelegation(Owner, RoleA)
    \/ \E roles \in RoleLists :
          Quiescent(Owner) /\ AddTarget(Owner, "t1", roles)
    \/ PublishBootstrap(Owner, "ok", "ok")
    \/ PublishApply(Owner)
    \/ PublishSign(Owner)
    \/ \E a \in Answers : PublishPush(Owner, a)
    \/ PublishClear(Owner, TRUE)

SpecRevoke == Init /\ [][NextRevoke]_vars

\* The server's metadata delegates the role to none of the client's keys:
\* the delegation is gone, or its keys are keys the client does not hold.
HoldsNoDelegationKey(c, store, role) ==
    /\ CanonicalRootRole \in DOMAIN store
    /\ CanonicalTargetsRole \in DOMAIN store
    /\ keys[c] \cap AuthorizedKeys(PulledRepo(store), role) = {}

\* C34 (as stated): when the server's metadata no longer delegates targets/a
\* to a key of the client, a Publish by that client of changes scoped to
\* targets/a fails and leaves the server's store as it was.
C34_Original ==
    \A c \in Clients :
        (PublishCall(c) /\ call[c].fetch = "remote"
            /\ AddsTargetsTo(call[c].cl0, RoleA)
            /\ HoldsNoDelegationKey(c, call[c].remote0, RoleA)) =>
            /\ remote = call[c].remote0
            /\ Returned(c) => result[c] # OK

\* ---------------------------------------- errors writing the change files
\* The os.PathError of a change file, or a changelist directory, that cannot
\* be written.
ErrPathError == "PathError"

\* A defect: a failed write takes back the changes written before it.
addChangeRollsBack(template, roles, failAt) == <<>>

\* The changes cl.Add has written when the write of change failAt fails:
\* the loop returns at the first error and takes nothing back.
addChangeWritten(template, roles, failAt) ==
    SubSeq(addChangeList(template, roles), 1, failAt - 1)

\* AddTarget and RemoveTarget on a changelist whose write of change failAt
\* fails; failAt = 0 is a changelist that cannot be opened.
stageUnwritable(c, op, template, target, roles, failAt) ==
    LET args == [target |-> target, roles |-> roles, failAt |-> failAt]
    IN  /\ failAt <= Len(addChangeRoles(roles))
        /\ IF failAt = 0
           THEN Stage(c, StagingCall(op, args), ErrPathError, <<>>)
           ELSE IF ~addChangeValid(roles)
           THEN Stage(c, OpenedCall(op, args), ErrInvalidRole, <<>>)
           ELSE Stage(c, OpenedCall(op, args), ErrPathError,
                      addChangeWritten(template, roles, failAt))

AddTargetUnwritable(c, target, roles, failAt) ==
    /\ stageUnwritable(c, "AddTarget",
          NewTufChange(ActionCreate, <<>>, TypeTargetsTarget, target,
                       MetaContent),
          target, roles, failAt)
    /\ UNCHANGED <<remote, minted, now, keys, fileStore, tufRepo, pc>>

RemoveTargetUnwritable(c, target, roles, failAt) ==
    /\ stageUnwritable(c, "RemoveTarget",
          NewTufChange(ActionDelete, <<>>, TypeTargetsTarget, target,
                       NoContent),
          target, roles, failAt)
    /\ UNCHANGED <<remote, minted, now, keys, fileStore, tufRepo, pc>>

WriteRoleLists == {<<>>, <<RoleA>>, <<CanonicalTargetsRole, RoleA>>,
                   <<RoleA, CanonicalRootRole>>}
WriteFailures == 0..MaxChanges

NextWrite ==
    \/ \E m \in ManagedChoices :
          Initialize(Owner, RootKey, m, 0, ServerKeyRoles, "ok")
    \/ \E t \in StagedTargets, roles \in WriteRoleLists :
          AddTarget(Owner, t, roles)
    \/ \E t \in StagedTargets, roles \in WriteRoleLists :
          RemoveTarget(Owner, t, roles)
    \/ \E t \in StagedTargets, roles \in WriteRoleLists, f \in WriteFailures :
          AddTargetUnwritable(Owner, t, roles, f)
    \/ \E t \in StagedTargets, roles \in WriteRoleLists, f \in WriteFailures :
          RemoveTargetUnwritable(Owner, t, roles, f)

SpecWrite == Init /\ [][NextWrite]_vars

\* The last call staged targets on a changelist with a failing write.
UnwritableCall(c) ==
    /\ call[c].op \in {"AddTarget", "RemoveTarget"}
    /\ "failAt" \in DOMAIN call[c].args

\* The changes the call would have staged had every write succeeded.
Intended(c) ==
    addChangeList(
        IF call[c].op = "AddTarget"
        THEN NewTufChange(ActionCreate, <<>>, TypeTargetsTarget,
                          call[c].args.target, MetaContent)
        ELSE NewTufChange(ActionDelete, <<>>, TypeTargetsTarget,
                          call[c].args.target, NoContent),
        call[c].args.roles)

OnlyWrite(c) ==
    /\ PublishCall(c) /\ pc[c] = "push" /\ call[c].at = "sign"
    /\ call[c].applied = Len(call[c].cl0)
    /\ ~call[c].sent /\ call'[c].sent
    /\ \A r \in DOMAIN updatedFiles[c] : updatedFiles[c][r].sigs # {}
    /\ remote' = SetMultiMeta(remote, updatedFiles[c]).store

\* C36: the server's store changes only in the one SetMultiMeta of a
\* Publish, which comes after the whole changelist was applied and every
\* file signed; a Publish that ended in the replay or in the signing of
\* root, targets or snapshot has sent nothing.
C36_OneWriteAfterSigning ==
    /\ [][remote' # remote => \E c \in Clients : OnlyWrite(c)]_vars
    /\ [](\A c \in Clients :
            (Returned(c) /\ call[c].at \in {"bootstrap", "apply", "sign"}) =>
                ~call[c].sent)

\* One Publish has written to the server after its replay and signing, and
\* another has ended at the signing step without sending anything.
C36_Witness ==
    \E c \in Clients, d \in Clients :
        /\ PublishCall(c) /\ call[c].sent /\ call[c].at = "clear"
        /\ call[c].cl0 # <<>> /\ result[c] = OK
        /\ Returned(d) /\ call[d].at = "sign" /\ result[d] # OK
        /\ ~call[d].sent

\* ------------------------------------- a fetched root that cannot be used
\* The cached root is replaced by a root anchored in the certificate of
\* another GUN.
SetMetaForeign(c) ==
    /\ pc[c] = "idle"
    /\ CanonicalRootRole \in DOMAIN fileStore[c]
    /\ fileStore' = [fileStore EXCEPT ![c][CanonicalRootRole] = ForeignRoot]
    /\ call' = [call EXCEPT ![c] =
          [NoCall EXCEPT !.op = "SetMeta",
                         !.args = [role |-> CanonicalRootRole]]]
    /\ result' = [result EXCEPT ![c] = OK]
    /\ UNCHANGED <<remote, minted, now, keys, changelist, tufRepo, pc,
                   updateRoot, updatedFiles>>

NextBoot ==
    \/ \E m \in ManagedChoices :
          Initialize(Owner, RootKey, m, 0, ServerKeyRoles, "ok")
    \/ \E t \in StagedTargets : Quiescent(Owner) /\ AddTarget(Owner, t, <<>>)
    \/ SetMetaCorrupt(Owner, CanonicalRootRole)
    \/ SetMetaForeign(Owner)
    \/ \E a \in Answers, pa \in Answers : PublishBootstrap(Owner, a, pa)
    \/ PublishApply(Owner)
    \/ PublishSign(Owner)
    \/ \E a \in Answers : PublishPush(Owner, a)
    \/ PublishClear(Owner, TRUE)
    \/ \E a \in Answers, pa \in Answers : ListTargets(Owner, a, pa)
    \/ \E t \in StagedTargets, a \in Answers, pa \in Answers :
          GetTargetByName(Owner, t, a, pa)

SpecBoot == Init /\ [][NextBoot]_vars

BootOps == {"Publish", "ListTargets", "GetTargetByName"}

\* The error bootstrapClient has for a root it cannot use.
RootError(blob) ==
    IF blob.type = "corrupt" THEN ErrSyntax
    ELSE IF ~ValidateRoot(blob) THEN ErrValidationFail
    ELSE OK

\* The step begins one of the three operations and fetches a root, from the
\* server or from the cache, that does not parse or does not validate.
FetchesBadRoot(c) ==
    /\ pc[c] = "idle"
    /\ call'[c].op \in BootOps
    /\ \/ /\ call'[c].fetch = "remote"
          /\ RootError(remote[CanonicalRootRole]) # OK
       \/ /\ call'[c].fetch = "cache"
          /\ RootError(fileStore[c][CanonicalRootRole]) # OK

\* C37: when the root Publish, ListTargets or GetTargetByName fetched does
\* not parse or does not pass ValidateRoot, the operation returns that error
\* and the in-memory Repo is what it was before the call.
C37_RepoKeptUntilValidated ==
    [][\A c \in Clients :
          FetchesBadRoot(c) =>
              /\ pc'[c] = "idle"
              /\ result'[c] =
                    RootError(IF call'[c].fetch = "remote"
                              THEN remote[CanonicalRootRole]
                              ELSE fileStore[c][CanonicalRootRole])
              /\ tufRepo'[c] = tufRepo[c]]_vars

\* An operation was refused a cached root that does not validate and
\* returned with the loaded Repo still in memory.
C37_Witness ==
    \E c \in Clients :
        /\ call[c].op \in BootOps /\ call[c].fetch = "cache"
        /\ pc[c] = "idle"
        /\ result[c] = ErrValidationFail
        /\ fileStore[c][CanonicalRootRole] = ForeignRoot
        /\ tufRepo[c] # NoRepo

\* ------------------------------------------- the snapshot a Publish pushes
\* The root blob of c's Publish: the one it pushes, or the server's root it
\* started from when root is not pushed.
PublishedRoot(c) ==
    IF CanonicalRootRole \in DOMAIN updatedFiles[c]
    THEN updatedFiles[c][CanonicalRootRole]
    ELSE call[c].remote0[CanonicalRootRole]

\* C38: the snapshot a Publish pushes was signed after the whole changelist
\* was applied and after root and targets were signed: its entries for root
\* and targets are the digests of the root and targets blobs of that same
\* Publish.
C38_SnapshotMatchesPush ==
    \A c \in Clients :
        (PublishCall(c) /\ call[c].sent
            /\ CanonicalSnapshotRole \in DOMAIN updatedFiles[c]) =>
            LET snap == updatedFiles[c][CanonicalSnapshotRole]
            IN  /\ call[c].applied = Len(call[c].cl0)
                /\ CanonicalTargetsRole \in DOMAIN updatedFiles[c]
                /\ snap.meta[CanonicalTargetsRole] =
                      Hash(updatedFiles[c][CanonicalTargetsRole])
                /\ snap.meta[CanonicalRootRole] = Hash(PublishedRoot(c))

\* A Publish of staged changes pushed a snapshot it signed, without a root.
C38_Witness ==
    \E c \in Clients :
        /\ PublishCall(c) /\ call[c].sent /\ call[c].cl0 # <<>>
        /\ CanonicalSnapshotRole \in DOMAIN updatedFiles[c]
        /\ CanonicalRootRole \notin DOMAIN updatedFiles[c]
        /\ updatedFiles[c][CanonicalSnapshotRole].meta[CanonicalTargetsRole]
              = Hash(remote[CanonicalTargetsRole])

\* -------------------------------------------- the root of an offline call
\* The Repo bootstrapClient seeds from the cached root.
SeededFromCache(c) ==
    [NoRepo EXCEPT !.root = <<FromBlob(fileStore[c][CanonicalRootRole])>>]

\* C39: in a call whose remote root fetch failed with another error than
\* NotFound, a cached root is used, after the same parsing and validation,
\* and without a cached root the remote error is returned; a remote NotFound
\* is returned by ListTargets and GetTargetByName although a root is cached.
C39_CacheOnlyWhenUnreachable ==
    [][\A c \in Clients :
          (pc[c] = "idle" /\ call'[c].op \in BootOps) =>
              LET cached == CanonicalRootRole \in DOMAIN fileStore[c]
                  how == call'[c].fetch
              IN  /\ (how = "notfound" /\ call'[c].op # "Publish") =>
                         /\ result'[c] = ErrMetaNotFound
                         /\ tufRepo'[c] = tufRepo[c]
                  /\ how = "unavailable" =>
                         /\ ~cached
                         /\ result'[c] = ErrServerUnavailable
                         /\ pc'[c] = "idle"
                         /\ tufRepo'[c] = tufRepo[c]
                  /\ how = "cache" =>
                         /\ cached
                         /\ IF RootError(fileStore[c][CanonicalRootRole]) # OK
                            THEN result'[c] =
                                    RootError(fileStore[c][CanonicalRootRole])
                            ELSE \/ tufRepo'[c] = SeededFromCache(c)
                                 \/ /\ CanonicalRootRole \in DOMAIN remote
                                    /\ CanonicalTargetsRole \in DOMAIN remote
                                    /\ tufRepo'[c] = PulledRepo(remote)]_vars

\* A call went on with the cached root of a server that did not answer for
\* the root and did not answer for the rest either.
C39_Witness ==
    \E c \in Clients :
        /\ call[c].op \in BootOps /\ call[c].fetch = "cache"
        /\ pc[c] = "idle"
        /\ result[c] = ErrServerUnavailable
        /\ tufRepo[c] = SeededFromCache(c)

\* ------------------------------------ a MetadataStore that cannot be written
\* saveMetadata on a MetadataStore whose SetMeta fails for the roles in
\* unwritable: the error of the root write and of the snapshot write is
\* returned, the result of the targets write is dropped (line 662).
saveMetadataTo(repo, store, held, ignoreSnapshot, unwritable) ==
    LET put(st, role, blob) ==
            IF role \in unwritable THEN st
            ELSE [r \in DOMAIN st \cup {role} |->
                     IF r = role THEN blob ELSE st[r]]
        sr == serializeCanonicalRole(repo, CanonicalRootRole, held, now)
        st == SignTargets(sr.repo, CanonicalTargetsRole, held)
        ss == serializeCanonicalRole(st.repo, CanonicalSnapshotRole, held, now)
        store1 == put(store, CanonicalRootRole, sr.blob[1])
        store2 == put(store1, CanonicalTargetsRole, st.blob[1])
    IN  IF sr.err # OK THEN [repo |-> sr.repo, store |-> store, err |-> sr.err]
        ELSE IF CanonicalRootRole \in unwritable
        THEN [repo |-> sr.repo, store |-> store, err |-> ErrPathError]
        ELSE IF st.err # OK
        THEN [repo |-> st.repo, store |-> store1, err |-> st.err]
        ELSE IF ignoreSnapshot
        THEN [repo |-> st.repo, store |-> store2, err |-> OK]
        ELSE IF ss.err # OK
        THEN [repo |-> ss.repo, store |-> store2, err |-> ss.err]
        ELSE IF CanonicalSnapshotRole \in unwritable
        THEN [repo |-> ss.repo, store |-> store2, err |-> ErrPathError]
        ELSE [repo |-> ss.repo,
              store |-> put(store2, CanonicalSnapshotRole, ss.blob[1]),
              err |-> OK]

\* Initialize with a root key that is held and a server that hands out its
\* keys, on a MetadataStore whose SetMeta fails for the roles in unwritable.
InitializeUnwritable(c, rootKeyID, serverManagedRoles, unwritable) ==
    LET managed == SeqToSet(serverManagedRoles)
        serverManagesSnapshot == CanonicalSnapshotRole \in managed
        locallyManagedKeys ==
            IF serverManagesSnapshot THEN <<CanonicalTargetsRole>>
            ELSE <<CanonicalTargetsRole, CanonicalSnapshotRole>>
        created == {<<locallyManagedKeys[i], CreateKey(locallyManagedKeys[i])>> :
                       i \in 1..Len(locallyManagedKeys)}
        createdKeys == {p[2] : p \in created}
        roleKeys ==
            [r \in BaseRoles |->
                CASE r = CanonicalRootRole -> {rootKeyID}
                  [] r \in SeqToSet(locallyManagedKeys) -> {CreateKey(r)}
                  [] OTHER -> {RemoteKey(r)}]
        repo == InitSnapshot(InitTargets(InitRoot(NoRepo, roleKeys),
                                         CanonicalTargetsRole))
        saved == saveMetadataTo(repo, fileStore[c], keys[c] \cup createdKeys,
                                serverManagesSnapshot, unwritable)
        done == [NoCall EXCEPT !.op = "Initialize",
                    !.args = [rootKeyID |-> rootKeyID,
                              serverManagedRoles |-> serverManagedRoles,
                              unwritable |-> unwritable],
                    !.certs = {rootKeyID}, !.created = created,
                    !.requested = TRUE,
                    !.written = {r \in DOMAIN saved.store :
                                    \/ r \notin DOMAIN fileStore[c]
                                    \/ saved.store[r] # fileStore[c][r]}]
    IN  /\ c = Owner
        /\ pc[c] = "idle"
        /\ CanonicalRootRole \notin DOMAIN fileStore[c]
        /\ CanCreate(CanonicalTargetsRole) /\ CanCreate(CanonicalSnapshotRole)
        /\ rootKeyID \in keys[c]
        /\ remoteRolesValid(serverManagedRoles)
        /\ result' = [result EXCEPT ![c] = saved.err]
        /\ call' = [call EXCEPT ![c] = done]
        /\ minted' = minted \cup createdKeys
        /\ keys' = [keys EXCEPT ![c] = @ \cup createdKeys]
        /\ tufRepo' = [tufRepo EXCEPT ![c] = saved.repo]
        /\ fileStore' = [fileStore EXCEPT ![c] = saved.store]
        /\ UNCHANGED <<remote, now, changelist, pc, updateRoot, updatedFiles>>

UnwritableChoices ==
    SUBSET {CanonicalRootRole, CanonicalTargetsRole, CanonicalSnapshotRole}

NextSave ==
    \/ \E m \in ManagedChoices, u \in UnwritableChoices :
          InitializeUnwritable(Owner, RootKey, m, u)
    \/ \E t \in StagedTargets, roles \in RoleLists : AddTarget(Owner, t, roles)
    \/ \E a \in Answers, pa \in Answers : PublishBootstrap(Owner, a, pa)
    \/ PublishApply(Owner)
    \/ PublishSign(Owner)
    \/ \E a \in Answers : PublishPush(Owner, a)
    \/ \E cleared \in BOOLEAN : PublishClear(Owner, cleared)

SpecSave == Init /\ [][NextSave]_vars

\* C40 (as stated): when Initialize returns success, root and targets, and
\* the snapshot when it is managed locally, are in the local MetadataStore.
C40_Original ==
    \A c \in Clients :
        (call[c].op = "Initialize" /\ result[c] = OK) =>
            /\ CanonicalRootRole \in DOMAIN fileStore[c]
            /\ CanonicalTargetsRole \in DOMAIN fileStore[c]
            /\ CanonicalSnapshotRole \notin
                  SeqToSet(call[c].args.serverManagedRoles) =>
                  CanonicalSnapshotRole \in DOMAIN fileStore[c]

============================================================================
